---- MODULE Spec2Model ----
(***************************************************************************)
(* ArWings: pose-driven overlay placement.                                 *)
(*                                                                         *)
(* The repository holds several programs that are variants of one demo.    *)
(* Four of them are modelled side by side, selected by `variant`:          *)
(*   "part_000"  src/unnamed/part_000  (animate, positionWing)             *)
(*   "part_002"  src/unnamed/part_002  (GaussianSplatLoader, positionSplat)*)
(*   "script"    src/script.js:1-563   (positionWingsOnBack,               *)
(*                                      positionWingGluedToBack)           *)
(*   "part_001"  src/unnamed/part_001  (positionWings, positionBox)        *)
(*                                                                         *)
(* Spec is the frame loop of these programs.  SpecPLY is part_002's        *)
(* GaussianSplatLoader.parsePLY applied to the bytes of a point-cloud file.*)
(*                                                                         *)
(* JavaScript numbers are IEEE-754 binary floating point.  They are        *)
(* modelled as binary floating point with a significand of MantissaBits    *)
(* bits, round-to-nearest-even, +Infinity/-Infinity/NaN, and an unbounded  *)
(* exponent (no overflow, no subnormals, no negative zero).                *)
(***************************************************************************)
EXTENDS Integers, Sequences, FiniteSets, TLC

\* ------------------------------------------------------------------ bounds
MantissaBits == 11
MaxTicks == 2
MaxInFlight == 2

\* ------------------------------------------------- floating-point numbers
Pow2(n) == 2 ^ n

RECURSIVE BitLen(_)
BitLen(m) == IF m = 0 THEN 0 ELSE 1 + BitLen(m \div 2)

Fin(s, m, e) == [k |-> "fin", s |-> s, m |-> m, e |-> e]
FZero == Fin(1, 0, 0)
FNaN == [k |-> "nan", s |-> 1, m |-> 0, e |-> 0]
FInf(s) == [k |-> "inf", s |-> s, m |-> 0, e |-> 0]

IsNaN(a) == a.k = "nan"
IsFinite(a) == a.k = "fin"
IsZero(a) == a.k = "fin" /\ a.m = 0

\* s * m * 2^e rounded to MantissaBits significant bits, ties to even.
RoundNorm(s, m, e) ==
  IF m = 0 THEN FZero
  ELSE LET n == BitLen(m) IN
    IF n <= MantissaBits
    THEN Fin(s, m * Pow2(MantissaBits - n), e - (MantissaBits - n))
    ELSE LET k == n - MantissaBits
             q == m \div Pow2(k)
             r == m % Pow2(k)
             half == Pow2(k - 1)
             q2 == IF r > half \/ (r = half /\ q % 2 = 1) THEN q + 1 ELSE q
         IN IF q2 = Pow2(MantissaBits)
            THEN Fin(s, Pow2(MantissaBits - 1), e + k + 1)
            ELSE Fin(s, q2, e + k)

SignOf(i) == IF i < 0 THEN -1 ELSE 1
AbsInt(i) == IF i < 0 THEN -i ELSE i

\* An integer literal.
FI(i) == RoundNorm(SignOf(i), AbsInt(i), 0)

FNeg(a) == IF a.k = "nan" \/ IsZero(a) THEN a ELSE [a EXCEPT !.s = -a.s]
FAbs(a) == IF a.k = "nan" THEN a ELSE [a EXCEPT !.s = 1]

\* a + b
FAdd(a, b) ==
  IF a.k = "nan" \/ b.k = "nan" THEN FNaN
  ELSE IF a.k = "inf" /\ b.k = "inf" THEN (IF a.s = b.s THEN a ELSE FNaN)
  ELSE IF a.k = "inf" THEN a
  ELSE IF b.k = "inf" THEN b
  ELSE IF a.m = 0 THEN b
  ELSE IF b.m = 0 THEN a
  ELSE LET hi == IF a.e >= b.e THEN a ELSE b
           lo == IF a.e >= b.e THEN b ELSE a
           d == hi.e - lo.e
           far == d >= MantissaBits + 3
           M == IF far THEN hi.s * hi.m * 8 + lo.s
                       ELSE hi.s * hi.m * Pow2(d) + lo.s * lo.m
           E == IF far THEN hi.e - 3 ELSE lo.e
       IN RoundNorm(SignOf(M), AbsInt(M), E)

\* a - b
FSub(a, b) == FAdd(a, FNeg(b))

\* a * b
FMul(a, b) ==
  IF a.k = "nan" \/ b.k = "nan" THEN FNaN
  ELSE IF a.k = "inf" \/ b.k = "inf"
       THEN (IF IsZero(a) \/ IsZero(b) THEN FNaN ELSE FInf(a.s * b.s))
  ELSE IF a.m = 0 \/ b.m = 0 THEN FZero
  ELSE RoundNorm(a.s * b.s, a.m * b.m, a.e + b.e)

\* a / b
FDiv(a, b) ==
  IF a.k = "nan" \/ b.k = "nan" THEN FNaN
  ELSE IF a.k = "inf" THEN (IF b.k = "inf" THEN FNaN ELSE FInf(a.s * b.s))
  ELSE IF b.k = "inf" THEN FZero
  ELSE IF b.m = 0 THEN (IF a.m = 0 THEN FNaN ELSE FInf(a.s))
  ELSE IF a.m = 0 THEN FZero
  ELSE LET N == a.m * Pow2(MantissaBits + 2)
           q == N \div b.m
           r == N % b.m
           M == IF r # 0 /\ q % 2 = 0 THEN q + 1 ELSE q
       IN RoundNorm(a.s * b.s, M, a.e - b.e - (MantissaBits + 2))

RECURSIVE ISqrtFrom(_, _, _)
ISqrtFrom(x, r, bit) ==
  IF bit = 0 THEN r
  ELSE IF (r + bit) * (r + bit) <= x THEN ISqrtFrom(x, r + bit, bit \div 2)
  ELSE ISqrtFrom(x, r, bit \div 2)

\* Math.sqrt(a)
FSqrt(a) ==
  IF a.k = "nan" THEN FNaN
  ELSE IF IsZero(a) THEN FZero
  ELSE IF a.s = -1 THEN FNaN
  ELSE IF a.k = "inf" THEN a
  ELSE LET g == IF (a.e - (MantissaBits + 4)) % 2 = 0
                THEN MantissaBits + 4 ELSE MantissaBits + 5
           X == a.m * Pow2(g)
           r == ISqrtFrom(X, 0, Pow2(MantissaBits + 2))
           M == IF r * r # X /\ r % 2 = 0 THEN r + 1 ELSE r
       IN RoundNorm(1, M, (a.e - g) \div 2)

\* a < b, a > b, a <= b, a === b   (all false when either side is NaN)
FLt(a, b) ==
  LET d == FSub(a, b) IN
  /\ a.k # "nan" /\ b.k # "nan"
  /\ a # b
  /\ d.k # "nan" /\ d.s = -1
FGt(a, b) == FLt(b, a)
FEq(a, b) == a.k # "nan" /\ b.k # "nan" /\ a = b
FLe(a, b) == FLt(a, b) \/ FEq(a, b)

\* Math.max(a, b)
FMax(a, b) ==
  IF a.k = "nan" \/ b.k = "nan" THEN FNaN ELSE IF FLt(a, b) THEN b ELSE a

\* The literal n/d (n, d integers): the nearest representable number.
Lit(n, d) == FDiv(FI(n), FI(d))

\* ------------------------------------------------ binary64 numbers, exactly
\* For the questions that turn on the precision of a JavaScript number, the
\* number is modelled as binary64: a sign, a significand of DoubleBits bits
\* and an exponent (unbounded: no overflow, no subnormals, no negative zero;
\* finite values only).  Significands and their products do not fit a machine
\* integer: they are kept as little-endian sequences of limbs below LimbBase.
DoubleBits == 53
LimbBase == Pow2(15)
LimbBits == BitLen(LimbBase) - 1

Limb(a, i) == IF i <= Len(a) THEN a[i] ELSE 0
RECURSIVE Trim(_)
Trim(a) ==
  IF a = <<>> \/ a[Len(a)] # 0 THEN a ELSE Trim(SubSeq(a, 1, Len(a) - 1))
RECURSIVE BigOf(_)
BigOf(n) == IF n = 0 THEN <<>> ELSE <<n % LimbBase>> \o BigOf(n \div LimbBase)
RECURSIVE Zeros(_)
Zeros(k) == IF k = 0 THEN <<>> ELSE <<0>> \o Zeros(k - 1)

RECURSIVE BAddFrom(_, _, _, _)
BAddFrom(a, b, i, carry) ==
  IF i > Len(a) /\ i > Len(b)
  THEN (IF carry = 0 THEN <<>> ELSE <<carry>>)
  ELSE <<(Limb(a, i) + Limb(b, i) + carry) % LimbBase>>
       \o BAddFrom(a, b, i + 1, (Limb(a, i) + Limb(b, i) + carry) \div LimbBase)
BAdd(a, b) == BAddFrom(a, b, 1, 0)

\* a - b for a >= b
RECURSIVE BSubFrom(_, _, _, _)
BSubFrom(a, b, i, borrow) ==
  IF i > Len(a) THEN <<>>
  ELSE IF a[i] - Limb(b, i) - borrow < 0
  THEN <<a[i] - Limb(b, i) - borrow + LimbBase>> \o BSubFrom(a, b, i + 1, 1)
  ELSE <<a[i] - Limb(b, i) - borrow>> \o BSubFrom(a, b, i + 1, 0)
BSub(a, b) == Trim(BSubFrom(a, b, 1, 0))

\* a < b, for trimmed a and b
RECURSIVE BLtFrom(_, _, _)
BLtFrom(a, b, i) ==
  IF i = 0 THEN FALSE
  ELSE IF a[i] # b[i] THEN a[i] < b[i]
  ELSE BLtFrom(a, b, i - 1)
BLt(a, b) ==
  IF Len(a) # Len(b) THEN Len(a) < Len(b) ELSE BLtFrom(a, b, Len(a))

RECURSIVE BMulLimbFrom(_, _, _, _)
BMulLimbFrom(a, d, i, carry) ==
  IF i > Len(a) THEN (IF carry = 0 THEN <<>> ELSE <<carry>>)
  ELSE <<(a[i] * d + carry) % LimbBase>>
       \o BMulLimbFrom(a, d, i + 1, (a[i] * d + carry) \div LimbBase)
BMulLimb(a, d) == Trim(BMulLimbFrom(a, d, 1, 0))
RECURSIVE BMulFrom(_, _, _)
BMulFrom(a, b, j) ==
  IF j > Len(b) THEN <<>>
  ELSE BAdd(BMulLimb(a, b[j]), <<0>> \o BMulFrom(a, b, j + 1))
BMul(a, b) == Trim(BMulFrom(a, b, 1))

\* floor(a / d) and a mod d for 0 < d <= LimbBase, from the top limb down
RECURSIVE BModLimbFrom(_, _, _, _)
BModLimbFrom(a, d, i, rem) ==
  IF i = 0 THEN rem ELSE BModLimbFrom(a, d, i - 1, (rem * LimbBase + a[i]) % d)
BModLimb(a, d) == BModLimbFrom(a, d, Len(a), 0)
RECURSIVE BDivLimbFrom(_, _, _, _)
BDivLimbFrom(a, d, i, rem) ==
  IF i = 0 THEN <<>>
  ELSE BDivLimbFrom(a, d, i - 1, (rem * LimbBase + a[i]) % d)
       \o <<(rem * LimbBase + a[i]) \div d>>
BDivLimb(a, d) == Trim(BDivLimbFrom(a, d, Len(a), 0))

\* a * 2^k and floor(a / 2^k)
BShl(a, k) ==
  IF a = <<>> THEN <<>>
  ELSE Zeros(k \div LimbBits) \o BMulLimb(a, Pow2(k % LimbBits))
BShr(a, k) ==
  IF k \div LimbBits >= Len(a) THEN <<>>
  ELSE BDivLimb(SubSeq(a, k \div LimbBits + 1, Len(a)), Pow2(k % LimbBits))
BBitLen(a) ==
  IF a = <<>> THEN 0 ELSE (Len(a) - 1) * LimbBits + BitLen(a[Len(a)])
BOdd(a) == a # <<>> /\ a[1] % 2 = 1

\* The value s * m * 2^e; a value other than zero is kept with a significand
\* of exactly DoubleBits bits, so that equal values are equal records.
D64Zero == [s |-> 1, m |-> <<>>, e |-> 0]
D64IsZero(a) == a.m = <<>>
\* q is floor(m / 2^sh): round to nearest, ties to even, on the bits cut off
D64Carry(s, r, e) ==
  IF BBitLen(r) > DoubleBits
  THEN [s |-> s, m |-> BShr(r, 1), e |-> e + 1]
  ELSE [s |-> s, m |-> r, e |-> e]
D64Nearest(s, q, rem, half, e) ==
  IF BLt(half, rem) \/ (rem = half /\ BOdd(q))
  THEN D64Carry(s, BAdd(q, <<1>>), e)
  ELSE [s |-> s, m |-> q, e |-> e]
D64Cut(s, m, q, e, sh) ==
  D64Nearest(s, q, BSub(m, BShl(q, sh)), BShl(<<1>>, sh - 1), e + sh)
D64Round(s, m, e) ==
  IF m = <<>> THEN D64Zero
  ELSE IF BBitLen(m) <= DoubleBits
  THEN [s |-> s, m |-> BShl(m, DoubleBits - BBitLen(m)),
        e |-> e - (DoubleBits - BBitLen(m))]
  ELSE D64Cut(s, m, BShr(m, BBitLen(m) - DoubleBits), e, BBitLen(m) - DoubleBits)

D64Neg(a) == IF D64IsZero(a) THEN a ELSE [a EXCEPT !.s = -a.s]
D64Abs(a) == [a EXCEPT !.s = 1]
\* hi.e >= lo.e, both not zero; mh is hi's significand at lo's exponent
D64AddAligned(hi, lo, mh) ==
  IF hi.s = lo.s THEN D64Round(hi.s, BAdd(mh, lo.m), lo.e)
  ELSE IF mh = lo.m THEN D64Zero
  ELSE IF BLt(lo.m, mh) THEN D64Round(hi.s, BSub(mh, lo.m), lo.e)
  ELSE D64Round(lo.s, BSub(lo.m, mh), lo.e)
D64AddOrdered(hi, lo) ==
  IF hi.e - lo.e > DoubleBits + 2 THEN hi  \* lo is below a quarter of hi's last place
  ELSE D64AddAligned(hi, lo, BShl(hi.m, hi.e - lo.e))
D64Add(a, b) ==
  IF D64IsZero(a) THEN b
  ELSE IF D64IsZero(b) THEN a
  ELSE IF a.e >= b.e THEN D64AddOrdered(a, b) ELSE D64AddOrdered(b, a)
D64Sub(a, b) == D64Add(a, D64Neg(b))
D64Mul(a, b) ==
  IF D64IsZero(a) \/ D64IsZero(b) THEN D64Zero
  ELSE D64Round(a.s * b.s, BMul(a.m, b.m), a.e + b.e)
D64Le(a, b) == D64Sub(a, b).s = -1 \/ D64IsZero(D64Sub(a, b))
\* The number a literal n/d denotes (0 < d <= LimbBase): the quotient to 75
\* binary places, with a last bit that records an inexact division.
D64LitOf(s, scaled, d) ==
  IF BModLimb(scaled, d) = 0
  THEN D64Round(s, BDivLimb(scaled, d), -75)
  ELSE D64Round(s, BAdd(BShl(BDivLimb(scaled, d), 1), <<1>>), -76)
D64Lit(n, d) == D64LitOf(SignOf(n), BShl(BigOf(AbsInt(n)), 75), d)
\* Number.EPSILON, 2^-52
D64Epsilon == D64Round(1, <<1>>, -52)

\* --------------------------------------------------------------- vectors
Vec3(x, y, z) == [x |-> x, y |-> y, z |-> z]
VZero == Vec3(FZero, FZero, FZero)
VOne == Vec3(FI(1), FI(1), FI(1))
VecFinite(v) == IsFinite(v.x) /\ IsFinite(v.y) /\ IsFinite(v.z)

\* A THREE.Object3D as the programs use it; `exists` is FALSE for a variable
\* that is still null/undefined.
NewObject == [exists |-> TRUE, visible |-> TRUE, position |-> VZero,
              rotation |-> VZero, scale |-> VOne]
NoObject == [exists |-> FALSE, visible |-> FALSE, position |-> VZero,
             rotation |-> VZero, scale |-> VOne]
NoSize == [present |-> FALSE, x |-> FZero, y |-> FZero, z |-> FZero]
Size(x, y, z) == [present |-> TRUE, x |-> x, y |-> y, z |-> z]

\* -------------------------------------------------------- program constants
Variants == {"part_000", "part_002", "script", "part_001"}
SMOOTHING_FACTOR == Lit(4, 10)
CAMERA_MODE == "environment"
VideoWidth == 1280
VideoHeight == 720

\* Shoulder confidence threshold of each renderLoop.
ConfidenceThreshold(v) == IF v = "part_002" THEN Lit(4, 10) ELSE Lit(3, 10)
HipThreshold == Lit(2, 10)

\* ------------------------------------------------------------------ inputs
Kp(x, y, score) == [present |-> TRUE, x |-> x, y |-> y, score |-> score]
NoKp == [present |-> FALSE, x |-> FZero, y |-> FZero, score |-> FZero]

\* Shoulder positions (left, right) in video pixels: the end-to-end scenario
\* of the specification, two coincident shoulders at the image centre, and
\* two shoulders half a pixel apart.
ShoulderPositions ==
  { << <<FI(400), FI(300)>>, <<FI(600), FI(320)>> >>,
    << <<FI(640), FI(360)>>, <<FI(640), FI(360)>> >>,
    << <<FI(640), FI(360)>>, <<Lit(1281, 2), FI(360)>> >> }
\* Scores (left, right) of a pose the loops may or may not accept.
LowScores == { <<Lit(4, 10), Lit(9, 10)>>, <<Lit(9, 10), Lit(2, 10)>> }
GoodScore == Lit(9, 10)
Hips == <<Kp(FI(420), FI(600), Lit(8, 10)), Kp(FI(580), FI(600), Lit(8, 10))>>

PoseOutcome(kind, ls, rs, lh, rh) ==
  [kind |-> kind, ls |-> ls, rs |-> rs, lh |-> lh, rh |-> rh]
NoOutcome == PoseOutcome("none", NoKp, NoKp, NoKp, NoKp)

\* What one call of poseModel.estimatePoses(video) can produce: a rejection,
\* an empty list, a first pose lacking a shoulder keypoint, a pose with two
\* well-scored shoulders (with or without hips), a pose with a poorly scored
\* shoulder.
PoseOutcomes ==
  { PoseOutcome("rejected", NoKp, NoKp, NoKp, NoKp),
    PoseOutcome("empty", NoKp, NoKp, NoKp, NoKp),
    PoseOutcome("pose", Kp(FI(400), FI(300), GoodScore), NoKp, NoKp, NoKp),
    PoseOutcome("pose", Kp(FI(400), FI(300), GoodScore),
                Kp(FI(600), FI(320), GoodScore), Hips[1], Hips[2]) }
  \cup
  { PoseOutcome("pose", Kp(p[1][1], p[1][2], GoodScore),
                Kp(p[2][1], p[2][2], GoodScore), NoKp, NoKp) :
      p \in ShoulderPositions }
  \cup
  { PoseOutcome("pose", Kp(FI(400), FI(300), s[1]),
                Kp(FI(600), FI(320), s[2]), NoKp, NoKp) : s \in LowScores }

\* Bounding-box sizes a loaded point cloud can have.
BoundingBoxSizes ==
  { Size(FI(1), FI(1), FI(1)), Size(FI(2), FI(4), FI(3)),
    Size(FZero, FZero, FZero) }

\* -------------------------------------------------------- library methods
\* Math.hypot(dx, dy)
Hypot(dx, dy) == FSqrt(FAdd(FMul(dx, dx), FMul(dy, dy)))

FPi == Lit(355, 113)
\* atan(r) for |r| <= 1, to about 0.004 rad.
AtanUnit(r) ==
  FAdd(FMul(FDiv(FPi, FI(4)), r),
       FMul(FMul(Lit(273, 1000), r), FSub(FI(1), FAbs(r))))

\* Math.atan2(dy, dx) for finite arguments; Math.atan2(0, 0) is 0.
Atan2(dy, dx) ==
  IF ~IsFinite(dy) \/ ~IsFinite(dx) THEN FNaN
  ELSE IF IsZero(dy) /\ IsZero(dx) THEN FZero
  ELSE IF FLe(FAbs(dy), FAbs(dx))
       THEN LET base == AtanUnit(FDiv(dy, dx)) IN
            IF dx.s = 1 THEN base
            ELSE IF dy.s = 1 THEN FAdd(base, FPi) ELSE FSub(base, FPi)
       ELSE LET base == AtanUnit(FDiv(dx, dy)) IN
            IF dy.s = 1 THEN FSub(FDiv(FPi, FI(2)), base)
            ELSE FSub(FNeg(FDiv(FPi, FI(2))), base)

\* THREE.Vector3.length() and divideScalar(k)
VLength(v) ==
  FSqrt(FAdd(FAdd(FMul(v.x, v.x), FMul(v.y, v.y)), FMul(v.z, v.z)))
DivideScalar(v, k) == Vec3(FDiv(v.x, k), FDiv(v.y, k), FDiv(v.z, k))
\* length() || 1
OrOne(len) == IF IsNaN(len) \/ IsZero(len) THEN FI(1) ELSE len
\* THREE.Vector3.normalize(): divideScalar(length() || 1)
Normalize(v) == DivideScalar(v, OrOne(VLength(v)))
\* THREE.Vector3 sub, add, multiplyScalar
VSub(a, b) == Vec3(FSub(a.x, b.x), FSub(a.y, b.y), FSub(a.z, b.z))
VAdd(a, b) == Vec3(FAdd(a.x, b.x), FAdd(a.y, b.y), FAdd(a.z, b.z))
MultiplyScalar(v, k) == Vec3(FMul(v.x, k), FMul(v.y, k), FMul(v.z, k))

\* THREE.Vector3(nx, ny, 0.5).unproject(camera) for the camera the programs
\* build: PerspectiveCamera(75, width / height, 0.1, 1000) at the origin,
\* looking down -Z.  The point lies at view depth 0.39988 (NDC z = 0.5
\* between near 0.1 and far 1000); tan(75 deg / 2) = 0.76733.
Unproject(nx, ny) ==
  LET tanHalf == Lit(76733, 100000)
      viewDepth == Lit(39988, 100000)
      aspect == FDiv(FI(VideoWidth), FI(VideoHeight))
  IN Vec3(FMul(FMul(FMul(nx, tanHalf), aspect), viewDepth),
          FMul(FMul(ny, tanHalf), viewDepth),
          FNeg(viewDepth))

\* (px / video.videoWidth) * 2 - 1, negated for the front camera
NdcX(px) ==
  LET nx == FSub(FMul(FDiv(px, FI(VideoWidth)), FI(2)), FI(1))
  IN IF CAMERA_MODE = "user" THEN FNeg(nx) ELSE nx
\* -(py / video.videoHeight) * 2 + 1
NdcY(py) == FAdd(FMul(FNeg(FDiv(py, FI(VideoHeight))), FI(2)), FI(1))

\* ---------------------------------------------------------------- smoothing
\* The blend of script.js smoothValue, which subtracts the factor where the
\* current value belongs.
SmoothValueStyle(current, target) ==
  FAdd(current, FMul(FSub(target, SMOOTHING_FACTOR), SMOOTHING_FACTOR))
\* smoothed.a = smoothed.a + (target.a - smoothed.a) * SMOOTHING_FACTOR
SmoothAxis(current, target) ==
  FAdd(current, FMul(FSub(target, current), SMOOTHING_FACTOR))

\* The same update in binary64, and one that blends with 0.3.
SmoothAxis64Slower(current, target) ==
  D64Add(current, D64Mul(D64Sub(target, current), D64Lit(3, 10)))
SmoothAxis64(current, target) ==
  D64Add(current, D64Mul(D64Sub(target, current), D64Lit(4, 10)))
SmoothVec64(current, target) ==
  Vec3(SmoothAxis64(current.x, target.x), SmoothAxis64(current.y, target.y),
       SmoothAxis64(current.z, target.z))

SmoothVec(current, target) ==
  Vec3(SmoothAxis(current.x, target.x), SmoothAxis(current.y, target.y),
       SmoothAxis(current.z, target.z))

\* bodyRot = CAMERA_MODE === 'user' ? -angle : angle
BodyRot(angle) == IF CAMERA_MODE = "user" THEN FNeg(angle) ELSE angle

\* -------------------------------------------------- per-frame measurements
\* renderLoop: dist, depth, scale, spine, angle from the two shoulders.
ShoulderDist(ls, rs) == Hypot(FSub(rs.x, ls.x), FSub(rs.y, ls.y))
Depth(dist) == FSub(FI(-2), FDiv(FI(150), dist))
SubjectScale(dist) == FMax(Lit(1, 2), FDiv(dist, FI(150)))
ShoulderAngle(ls, rs) == Atan2(FSub(rs.y, ls.y), FSub(rs.x, ls.x))
Midpoint(ls, rs) ==
  [x |-> FDiv(FAdd(ls.x, rs.x), FI(2)), y |-> FDiv(FAdd(ls.y, rs.y), FI(2))]

HipsUsable(lh, rh) ==
  /\ lh.present /\ rh.present
  /\ FGt(lh.score, HipThreshold) /\ FGt(rh.score, HipThreshold)

\* script.js and part_001: spine.y becomes the mid-torso when hips are seen.
SpineWithHips(ls, rs, lh, rh) ==
  LET mid == Midpoint(ls, rs) IN
  IF HipsUsable(lh, rh)
  THEN [mid EXCEPT !.y = FDiv(FAdd(mid.y, FDiv(FAdd(lh.y, rh.y), FI(2))), FI(2))]
  ELSE mid

\* part_000 animate: estimatedDepth and scale from shoulderDistance.
EstimatedDepth(shoulderDistance) ==
  FSub(Lit(-3, 2), FDiv(FI(200), shoulderDistance))
ScaleOfDistance(shoulderDistance) == FDiv(shoulderDistance, FI(200))

\* A shoulder test that accepts the pose when either shoulder is well scored.
ConfidentEither(v, ls, rs) ==
  /\ ls.present /\ rs.present
  /\ (FGt(ls.score, ConfidenceThreshold(v)) \/ FGt(rs.score, ConfidenceThreshold(v)))
\* The shoulder test of each renderLoop (a missing keypoint is not confident
\* where the code tests for it; part_002 does not, see ShoulderMissing).
Confident(v, ls, rs) ==
  /\ ls.present /\ rs.present
  /\ FGt(ls.score, ConfidenceThreshold(v))
  /\ FGt(rs.score, ConfidenceThreshold(v))

\* part_002 reads ls.score and rs.score without testing ls and rs: a TypeError
\* when the keypoint it reads is undefined (rs is read only if ls passed).
ShoulderMissing(ls, rs) ==
  \/ ~ls.present
  \/ (FGt(ls.score, ConfidenceThreshold("part_002")) /\ ~rs.present)

\* ------------------------------------------------------ placement functions
CameraPosition == VZero

\* What a placement function did: the smoothed state it left, the object as
\* it wrote it, and the target it steered to.
Placed(obj, sPos, sRot, tPos, tRot) ==
  [obj |-> obj, sPos |-> sPos, sRot |-> sRot, tPos |-> tPos, tRot |-> tRot]

\* position.set / scale.set / rotation.set with the smoothed values.
SetTransform(obj, newPos, newRot, tPos, tRot, scl) ==
  Placed([obj EXCEPT !.position = newPos, !.scale = scl, !.rotation = newRot],
         newPos, newRot, tPos, tRot)

\* The common tail of positionSplat, positionWingsOnBack,
\* positionWingGluedToBack and positionWings: smooth the position and the
\* rotation toward their targets, then write them and the scale to the object.
SmoothAndSet(obj, sPos, sRot, tPos, tRot, scl) ==
  SetTransform(obj, SmoothVec(sPos, tPos), SmoothVec(sRot, tRot), tPos, tRot, scl)

Uniform(k) == Vec3(k, k, k)

\* The pixel -> NDC conversion at the head of every placement function.
Ndc(p) == [x |-> NdcX(p.x), y |-> NdcY(p.y)]

\* part_002 positionSplat, step 4: the scale applied to the splat.
SplatScaleGuard(sf) == IF IsNaN(sf) \/ FLe(sf, FZero) THEN FI(1) ELSE sf
BoxAverage(bbox) == FDiv(FAdd(FAdd(bbox.x, bbox.y), bbox.z), FI(3))
SplatScaleRaw(bbox, avg, scale) ==
  IF bbox.present /\ FGt(avg, FZero)
  THEN FMul(FDiv(Lit(3, 2), avg), scale)
  ELSE FMul(scale, Lit(1, 2))
\* A scale that is not inversely proportional to the average dimension.
SplatScaleOffset(bbox, scale) ==
  SplatScaleGuard(FMul(FDiv(Lit(3, 2), FAdd(BoxAverage(bbox), FI(1))), scale))
SplatScaleFactor(bbox, scale) ==
  SplatScaleGuard(SplatScaleRaw(bbox, BoxAverage(bbox), scale))

\* part_002 positionSplat, step 2: the point of the camera ray `dir` at
\* distance |depth / dir.z| from the camera.
AlongRay(dir, depth) ==
  VAdd(CameraPosition, MultiplyScalar(dir, FAbs(FDiv(depth, dir.z))))
RayThrough(ndc) ==
  Normalize(VSub(Unproject(ndc.x, ndc.y), CameraPosition))
\* The target of a splat anchored on the shoulder line itself.
SplatTargetPosUnshifted(spine, depth, shoulderDist) ==
  AlongRay(RayThrough(Ndc([x |-> spine.x, y |-> spine.y])), depth)

SplatTargetPos(spine, depth, shoulderDist) ==
  AlongRay(RayThrough(Ndc([x |-> spine.x,
                           y |-> FAdd(spine.y, FMul(shoulderDist, Lit(15, 100)))])),
           depth)
\* step 5: the rotation target
SplatTargetRot(bodyRot) ==
  Vec3(Lit(-2, 10), FMul(bodyRot, Lit(1, 2)), FMul(bodyRot, Lit(2, 10)))

\* part_002 positionSplat(splat, spine, depth, scale, angle, shoulderDist)
PositionSplat(splat, spine, depth, scale, angle, shoulderDist, sPos, sRot, bbox) ==
  SmoothAndSet(splat, sPos, sRot,
               SplatTargetPos(spine, depth, shoulderDist),
               SplatTargetRot(BodyRot(angle)),
               Uniform(SplatScaleFactor(bbox, scale)))

\* script.js positionWingsOnBack / part_001 positionWings: the position target
WingsTargetPos(ndc, depth, scale) ==
  Vec3(ndc.x, FSub(ndc.y, FMul(Lit(1, 10), scale)),
       FSub(depth, FMul(Lit(3, 10), scale)))
\* script.js positionWingsOnBack: baseRot + bodyRotationInfluence * k
WingsTargetRot(influence) ==
  Vec3(Lit(-2, 10), FAdd(FZero, FMul(influence, Lit(1, 2))),
       FAdd(FZero, FMul(influence, Lit(2, 10))))

\* script.js positionWingsOnBack(wings, ls, rs, spineCenter, depth, scale, angle)
PositionWingsOnBack(wings, spineCenter, depth, scale, shoulderAngle, sPos, sRot) ==
  SmoothAndSet(wings, sPos, sRot,
               WingsTargetPos(Ndc(spineCenter), depth, scale),
               WingsTargetRot(BodyRot(shoulderAngle)),
               Uniform(FMul(scale, Lit(1, 10))))

\* script.js positionWingGluedToBack: the position target, from the NDC
\* spine centre, the shoulder's offset (dx, dy) from it and its length.
GluedTarget(sp, dx, dy, distFromSpine, depth, scale) ==
  Vec3(FAdd(sp.x, FMul(FDiv(dx, distFromSpine), FMul(distFromSpine, Lit(7, 10)))),
       FSub(FAdd(sp.y, FMul(FDiv(dy, distFromSpine),
                            FMul(distFromSpine, Lit(7, 10)))),
            FMul(Lit(15, 100), scale)),
       FSub(depth, FMul(Lit(4, 10), scale)))
GluedOffset(sp, dx, dy, depth, scale) ==
  GluedTarget(sp, dx, dy, FSqrt(FAdd(FMul(dx, dx), FMul(dy, dy))), depth, scale)
GluedTargetPos(sh, sp, depth, scale) ==
  GluedOffset(sp, FSub(sh.x, sp.x), FSub(sh.y, sp.y), depth, scale)
GluedTargetRot(side, influence) ==
  Vec3(Lit(-2, 10),
       FAdd(IF side = "left" THEN Lit(1, 2) ELSE Lit(-1, 2),
            FMul(influence, Lit(1, 2))),
       FAdd(IF side = "left" THEN Lit(-1, 10) ELSE Lit(1, 10),
            FMul(influence, Lit(2, 10))))
BoxScale(scale) ==
  Vec3(FMul(scale, Lit(8, 10)), FMul(scale, Lit(12, 10)), FMul(scale, Lit(6, 10)))

\* script.js positionWingGluedToBack(wing, thisShoulder, otherShoulder,
\*   spineCenter, depth, scale, shoulderAngle, currentShoulderDist, side)
PositionWingGluedToBack(wing, thisShoulder, spineCenter, depth, scale, shoulderAngle, side, sPos, sRot) ==
  SmoothAndSet(wing, sPos, sRot,
               GluedTargetPos(Ndc(thisShoulder), Ndc(spineCenter), depth, scale),
               GluedTargetRot(side, BodyRot(shoulderAngle)),
               BoxScale(scale))

\* part_001 positionWings: the "auto-scale" applied to the point cloud.
WingsScaleFactor(bbox, scale) ==
  IF bbox.present
  THEN FMul(FDiv(Lit(4, 10), BoxAverage(bbox)), scale)
  ELSE FMul(scale, Lit(1, 2))

\* part_001 positionWings(wings, ls, rs, spine, depth, scale, angle)
PositionWings(wings, spine, depth, scale, angle, sPos, sRot, bbox) ==
  SmoothAndSet(wings, sPos, sRot,
               WingsTargetPos(Ndc(spine), depth, scale),
               SplatTargetRot(BodyRot(angle)),
               Uniform(WingsScaleFactor(bbox, scale)))

\* part_001 positionBox: the position target
BoxTarget(sp, dx, dy, dist, depth, scale) ==
  Vec3(FAdd(sp.x, FMul(FMul(FDiv(dx, dist), dist), Lit(7, 10))),
       FSub(FAdd(sp.y, FMul(FMul(FDiv(dy, dist), dist), Lit(7, 10))),
            FMul(Lit(15, 100), scale)),
       FSub(depth, FMul(Lit(4, 10), scale)))
BoxOffset(sp, dx, dy, depth, scale) ==
  BoxTarget(sp, dx, dy, FSqrt(FAdd(FMul(dx, dx), FMul(dy, dy))), depth, scale)
BoxTargetPos(sh, sp, depth, scale) ==
  BoxOffset(sp, FSub(sh.x, sp.x), FSub(sh.y, sp.y), depth, scale)
\* baseRotY + bodyRot * 0.5
BoxTargetRotY(side, bodyRot) ==
  FAdd(IF side = "left" THEN Lit(1, 2) ELSE Lit(-1, 2), FMul(bodyRot, Lit(1, 2)))
\* only rot.y is smoothed, and only wing.rotation.y is written
SetYaw(wing, sRot, newPos, newY, tPos, tY) ==
  Placed([wing EXCEPT !.position = newPos, !.rotation = [@ EXCEPT !.y = newY]],
         newPos, [sRot EXCEPT !.y = newY], tPos, [sRot EXCEPT !.y = tY])
SmoothAndSetYaw(wing, sPos, sRot, tPos, tY, scl) ==
  SetYaw([wing EXCEPT !.scale = scl], sRot, SmoothVec(sPos, tPos),
         SmoothAxis(sRot.y, tY), tPos, tY)

\* part_001 positionBox(wing, shoulder, spine, depth, scale, angle, side)
PositionBox(wing, shoulder, spine, depth, scale, angle, side, sPos, sRot) ==
  SmoothAndSetYaw(wing, sPos, sRot,
                  BoxTargetPos(Ndc(shoulder), Ndc(spine), depth, scale),
                  BoxTargetRotY(side, BodyRot(angle)),
                  BoxScale(scale))

\* part_000 positionWing(wing, shoulder, depth, scale, side): the position
\* and the rotation are written as computed, nothing is smoothed.
WingPosition(ndc, depth, scale, side) ==
  Vec3(FAdd(ndc.x, IF side = "left" THEN FMul(Lit(-1, 10), scale)
                   ELSE FMul(Lit(1, 10), scale)),
       FAdd(ndc.y, FMul(Lit(5, 100), scale)),
       depth)
WingRotation(side) ==
  Vec3(FZero, IF side = "left" THEN Lit(-3, 10) ELSE Lit(3, 10), FZero)
WingSet(wing, pos, rot, scl) ==
  Placed([wing EXCEPT !.position = pos, !.scale = scl, !.rotation = rot],
         VZero, VZero, pos, rot)
PositionWing(wing, shoulder, depth, scale, side) ==
  WingSet(wing, WingPosition(Ndc(shoulder), depth, scale, side),
          WingRotation(side), Uniform(scale))

\* =================================================== GaussianSplatLoader
\* part_002 parsePLY.  A buffer is the header text (ASCII, one byte per
\* character) followed by the bytes of the records; the bytes after the text
\* decode to characters that take part in no match of the header patterns.
DecodeWindow == 2048
Undefined == -1

\* String.prototype.indexOf: the first position >= i (1-based) where p occurs
\* in t, 0 when there is none.
Occurrences(t, p, i) ==
  {j \in i..(Len(t) - Len(p) + 1) : SubSeq(t, j, j + Len(p) - 1) = p}
Least(S) == CHOOSE x \in S : \A y \in S : x <= y
IndexFrom(t, p, i) ==
  IF Occurrences(t, p, i) = {} THEN 0 ELSE Least(Occurrences(t, p, i))
\* t.indexOf(p) as JavaScript counts: 0-based, -1 when absent
IndexOf(t, p) == IndexFrom(t, p, 1) - 1

Digits == "0123456789"
Letters == "abcdefghijklmnopqrstuvwxyz"
IsDigit(c) == IndexFrom(Digits, c, 1) > 0
DigitValue(c) == IndexFrom(Digits, c, 1) - 1
\* The byte of an ASCII character of the header.
CharCode(c) ==
  IF c = "\n" THEN 10 ELSE IF c = " " THEN 32 ELSE IF c = "." THEN 46
  ELSE IF c = "_" THEN 95 ELSE IF IsDigit(c) THEN 48 + DigitValue(c)
  ELSE 96 + IndexFrom(Letters, c, 1)

\* \d+ : the position after the run of digits that starts at i
RECURSIVE DigitsEnd(_, _)
DigitsEnd(t, i) ==
  IF i <= Len(t) /\ IsDigit(SubSeq(t, i, i)) THEN DigitsEnd(t, i + 1) ELSE i
\* parseInt of a string of digits
RECURSIVE ParseIntFrom(_, _)
ParseIntFrom(d, acc) ==
  IF d = "" THEN acc
  ELSE ParseIntFrom(SubSeq(d, 2, Len(d)), acc * 10 + DigitValue(SubSeq(d, 1, 1)))
ParseInt(d) == ParseIntFrom(d, 0)

\* headerText.match(/element vertex (\d+)/): the digits of the first match,
\* "" when the pattern matches nowhere.
RECURSIVE VertexCountFrom(_, _)
VertexCountAt(t, i) ==
  IF DigitsEnd(t, i + 15) > i + 15
  THEN SubSeq(t, i + 15, DigitsEnd(t, i + 15) - 1)
  ELSE VertexCountFrom(t, i + 1)
VertexCountFrom(t, from) ==
  IF IndexFrom(t, "element vertex ", from) = 0 THEN ""
  ELSE VertexCountAt(t, IndexFrom(t, "element vertex ", from))
VertexCountMatch(headerText) == VertexCountFrom(headerText, 1)

\* The position of the line break that ends the line holding position i.
LineEnd(t, i) ==
  IF IndexFrom(t, "\n", i) = 0 THEN Len(t) + 1 ELSE IndexFrom(t, "\n", i)
\* text.match(/property .+/g): every "property " followed by at least one
\* character of the same line, up to the end of that line.
RECURSIVE PropertyLinesFrom(_, _)
PropertyLinesAt(t, i) ==
  IF LineEnd(t, i) > i + 9
  THEN <<SubSeq(t, i, LineEnd(t, i) - 1)>> \o PropertyLinesFrom(t, LineEnd(t, i) + 1)
  ELSE PropertyLinesFrom(t, i + 1)
PropertyLinesFrom(t, from) ==
  IF IndexFrom(t, "property ", from) = 0 THEN <<>>
  ELSE PropertyLinesAt(t, IndexFrom(t, "property ", from))
\* headerText.slice(0, headerEndIndex).match(/property .+/g), <<>> for null
PropertyLines(headerText, headerEndIndex) ==
  PropertyLinesFrom(
    SubSeq(headerText, 1,
           IF headerEndIndex < Len(headerText) THEN headerEndIndex
           ELSE Len(headerText)),
    1)

\* line.split(' ')
RECURSIVE Split(_)
Split(line) ==
  IF IndexFrom(line, " ", 1) = 0 THEN <<line>>
  ELSE <<SubSeq(line, 1, IndexFrom(line, " ", 1) - 1)>>
       \o Split(SubSeq(line, IndexFrom(line, " ", 1) + 1, Len(line)))
\* const [, type, name] = line.split(' ')
NoToken == "<undefined>"
TokenAt(tokens, k) == IF k <= Len(tokens) THEN tokens[k] ELSE NoToken
TypeOfLine(line) == TokenAt(Split(line), 2)
NameOfLine(line) == TokenAt(Split(line), 3)

\* typeSizeBytes[type], 0 for a type the table does not have
TypeSizeBytes(type) ==
  IF type = "float" THEN 4 ELSE IF type = "double" THEN 8
  ELSE IF type = "uchar" THEN 1 ELSE IF type = "int" THEN 4 ELSE 0

\* The loop over propertyLines: a line of a known type is pushed with the
\* running stride as its offset, a line of any other type is passed over.
RECURSIVE PropertiesFrom(_, _, _)
PropertiesFrom(lines, k, vertexStride) ==
  IF k > Len(lines) THEN <<>>
  ELSE IF TypeSizeBytes(TypeOfLine(lines[k])) > 0
  THEN <<[name |-> NameOfLine(lines[k]), type |-> TypeOfLine(lines[k]),
          offset |-> vertexStride]>>
       \o PropertiesFrom(lines, k + 1,
                         vertexStride + TypeSizeBytes(TypeOfLine(lines[k])))
  ELSE PropertiesFrom(lines, k + 1, vertexStride)
Properties(propertyLines) == PropertiesFrom(propertyLines, 1, 0)
VertexStride(properties) ==
  IF properties = <<>> THEN 0
  ELSE properties[Len(properties)].offset
       + TypeSizeBytes(properties[Len(properties)].type)

\* properties.find(p => p.name === n)
Found(properties, n) == \E i \in DOMAIN properties : properties[i].name = n
Find(properties, n) ==
  properties[CHOOSE i \in DOMAIN properties :
               /\ properties[i].name = n
               /\ \A j \in 1..(i - 1) : properties[j].name # n]
\* properties.find(...)?.offset and ?.type
OffsetOf(properties, n) ==
  IF Found(properties, n) THEN Find(properties, n).offset ELSE Undefined
TypeOf(properties, n) ==
  IF Found(properties, n) THEN Find(properties, n).type ELSE NoToken

PosOffsets(properties) ==
  <<OffsetOf(properties, "x"), OffsetOf(properties, "y"), OffsetOf(properties, "z")>>
\* colorOffsets: the f_dc_* offsets, or the red/green/blue ones when f_dc_0
\* is not declared
ColorOffsets(properties) ==
  IF OffsetOf(properties, "f_dc_0") # Undefined
  THEN <<OffsetOf(properties, "f_dc_0"), OffsetOf(properties, "f_dc_1"),
         OffsetOf(properties, "f_dc_2")>>
  ELSE <<OffsetOf(properties, "red"), OffsetOf(properties, "green"),
         OffsetOf(properties, "blue")>>
IsSphericalHarmonics(properties) == TypeOf(properties, "f_dc_0") = "float"

\* ------------------------------------------------------------ the DataView
BufferLength(buffer) == Len(buffer.text) + Len(buffer.body)
\* The byte at the 0-based position k of the buffer.
ByteAt(buffer, k) ==
  IF k < Len(buffer.text) THEN CharCode(SubSeq(buffer.text, k + 1, k + 1))
  ELSE buffer.body[k - Len(buffer.text) + 1]

\* IEEE-754 binary32 from its four bytes, least significant first, as a
\* number of the model (rounded to MantissaBits when it has more).
DecodeFloat32Fields(sign, biased, frac) ==
  IF biased = 255 THEN (IF frac = 0 THEN FInf(sign) ELSE FNaN)
  ELSE IF biased = 0 THEN RoundNorm(sign, frac, -149)
  ELSE RoundNorm(sign, 8388608 + frac, biased - 150)
DecodeFloat32(b0, b1, b2, b3) ==
  DecodeFloat32Fields(IF b3 >= 128 THEN -1 ELSE 1,
                      (b3 % 128) * 2 + (b2 \div 128),
                      (b2 % 128) * 65536 + b1 * 256 + b0)

\* offset + posOffsets.x: NaN when the field offset is undefined, and a NaN
\* byte offset is taken as 0 by the DataView getters
ByteOffset(offset, fieldOffset) ==
  IF fieldOffset = Undefined THEN 0 ELSE offset + fieldOffset
\* dataView.getFloat32(at, true) / dataView.getUint8(at), the view starting
\* at headerEndIndex
GetFloat32(buffer, headerEndIndex, at) ==
  DecodeFloat32(ByteAt(buffer, headerEndIndex + at),
                ByteAt(buffer, headerEndIndex + at + 1),
                ByteAt(buffer, headerEndIndex + at + 2),
                ByteAt(buffer, headerEndIndex + at + 3))
GetUint8(buffer, headerEndIndex, at) == ByteAt(buffer, headerEndIndex + at)
\* a getter throws a RangeError unless its bytes lie inside the view
InView(buffer, headerEndIndex, at, size) ==
  headerEndIndex + at + size <= BufferLength(buffer)

SH_C0 == Lit(28209479, 100000000)

\* What the loop reads for vertex i (0-based); the sizes of its reads.
ColorSize(properties) == IF IsSphericalHarmonics(properties) THEN 4 ELSE 1
VertexInView(buffer, headerEndIndex, offset, properties) ==
  /\ \A k \in 1..3 :
       InView(buffer, headerEndIndex, ByteOffset(offset, PosOffsets(properties)[k]), 4)
  /\ ColorOffsets(properties)[1] # Undefined =>
       \A k \in 1..3 :
         InView(buffer, headerEndIndex,
                ByteOffset(offset, ColorOffsets(properties)[k]),
                ColorSize(properties))

\* positions[i * 3 + k] and colors[i * 3 + k]; a Float32Array keeps each
\* value rounded to binary32, which no number of the model exceeds.
PositionAt(buffer, headerEndIndex, offset, properties, k) ==
  GetFloat32(buffer, headerEndIndex, ByteOffset(offset, PosOffsets(properties)[k + 1]))
ColorAt(buffer, headerEndIndex, offset, properties, k) ==
  IF ColorOffsets(properties)[1] # Undefined
  THEN IF IsSphericalHarmonics(properties)
       THEN FAdd(Lit(1, 2),
                 FMul(SH_C0, GetFloat32(buffer, headerEndIndex,
                        ByteOffset(offset, ColorOffsets(properties)[k + 1]))))
       ELSE FDiv(FI(GetUint8(buffer, headerEndIndex,
                       ByteOffset(offset, ColorOffsets(properties)[k + 1]))),
                 FI(255))
  ELSE FI(1)

\* A Float32Array of one element per vertex.
Float32ArrayPerVertex(vertexCount) == vertexCount
\* new Float32Array(vertexCount * 3): its length
Float32ArrayLength(vertexCount) == vertexCount * 3

\* The outcome of parsePLY.
NoGeometry == [status |-> "none", error |-> "", positions |-> <<>>, colors |-> <<>>]
Threw(message) ==
  [status |-> "threw", error |-> message, positions |-> <<>>, colors |-> <<>>]
Geometry(positions, colors) ==
  [status |-> "returned", error |-> "", positions |-> positions, colors |-> colors]

\* DATA READING: the two arrays, the DataView, the loop over the vertices.
ReadData(buffer, headerEndIndex, vertexCount, properties, vertexStride) ==
  IF headerEndIndex > BufferLength(buffer)
  THEN Threw("RangeError: Start offset is outside the bounds of the buffer")
  ELSE IF \E i \in 0..(vertexCount - 1) :
            ~VertexInView(buffer, headerEndIndex, i * vertexStride, properties)
  THEN Threw("RangeError: Offset is outside the bounds of the DataView")
  ELSE Geometry(
         [j \in 1..Float32ArrayLength(vertexCount) |->
            IF j <= vertexCount * 3
            THEN PositionAt(buffer, headerEndIndex, ((j - 1) \div 3) * vertexStride,
                            properties, (j - 1) % 3)
            ELSE FZero],
         [j \in 1..Float32ArrayLength(vertexCount) |->
            IF j <= vertexCount * 3
            THEN ColorAt(buffer, headerEndIndex, ((j - 1) \div 3) * vertexStride,
                         properties, (j - 1) % 3)
            ELSE FZero])

\* ATTRIBUTE OFFSET FINDING
ReadProperties(buffer, headerEndIndex, vertexCount, properties) ==
  IF \E k \in 1..3 : PosOffsets(properties)[k] = Undefined
  THEN Threw("Invalid PLY: Could not find all position properties (x, y, z).")
  ELSE ReadData(buffer, headerEndIndex, vertexCount, properties,
                VertexStride(properties))

\* PROPERTY PARSING
ReadPropertyLines(buffer, headerEndIndex, vertexCount, propertyLines) ==
  IF propertyLines = <<>>
  THEN Threw("Invalid PLY: No properties found in header.")
  ELSE ReadProperties(buffer, headerEndIndex, vertexCount, Properties(propertyLines))

ReadHeader(buffer, headerText, headerEndIndex, vertexCountMatch) ==
  IF vertexCountMatch = ""
  THEN Threw("Invalid PLY: Missing 'element vertex' count.")
  ELSE ReadPropertyLines(buffer, headerEndIndex, ParseInt(vertexCountMatch),
                         PropertyLines(headerText, headerEndIndex))

\* new TextDecoder().decode(buffer.slice(0, 2048)), without the characters
\* that the record bytes decode to
HeaderText(buffer) ==
  SubSeq(buffer.text, 1,
         IF Len(buffer.text) < DecodeWindow THEN Len(buffer.text) ELSE DecodeWindow)
\* A header end that takes the whole text for the header when the marker is
\* missing.
HeaderEndOrText(headerText) ==
  IF IndexOf(headerText, "end_header\n") = -1 THEN Len(headerText)
  ELSE IndexOf(headerText, "end_header\n") + 11
\* headerText.indexOf('end_header\n') + 11
HeaderEndIndex(headerText) == IndexOf(headerText, "end_header\n") + 11

\* parsePLY(buffer)
ParsePLY(buffer) ==
  ReadHeader(buffer, HeaderText(buffer), HeaderEndIndex(HeaderText(buffer)),
             VertexCountMatch(HeaderText(buffer)))

\* ------------------------------------------------ files given to the parser
MaxVertices == 2

\* IEEE-754 binary32 and binary64 of a number of the model, least
\* significant byte first.
Float32Bytes(sign, biased, frac) ==
  <<frac % 256, (frac \div 256) % 256, (biased % 2) * 128 + (frac \div 65536),
    sign * 128 + (biased \div 2)>>
EncodeFloat32(a) ==
  IF a.k = "nan" THEN Float32Bytes(0, 255, 4194304)
  ELSE IF a.k = "inf" THEN Float32Bytes(IF a.s = -1 THEN 1 ELSE 0, 255, 0)
  ELSE IF a.m = 0 THEN Float32Bytes(0, 0, 0)
  ELSE Float32Bytes(IF a.s = -1 THEN 1 ELSE 0, a.e + MantissaBits - 1 + 127,
                    (a.m - Pow2(MantissaBits - 1)) * Pow2(24 - MantissaBits))
\* frac20: the 20 leading bits of the 52-bit fraction (the rest are 0)
Float64Bytes(sign, biased, frac20) ==
  <<0, 0, 0, 0, frac20 % 256, (frac20 \div 256) % 256,
    (biased % 16) * 16 + (frac20 \div 65536), sign * 128 + (biased \div 16)>>
EncodeFloat64(a) ==
  IF a.k = "nan" THEN Float64Bytes(0, 2047, 524288)
  ELSE IF a.k = "inf" THEN Float64Bytes(IF a.s = -1 THEN 1 ELSE 0, 2047, 0)
  ELSE IF a.m = 0 THEN Float64Bytes(0, 0, 0)
  ELSE Float64Bytes(IF a.s = -1 THEN 1 ELSE 0, a.e + MantissaBits - 1 + 1023,
                    (a.m - Pow2(MantissaBits - 1)) * Pow2(21 - MantissaBits))

\* One point of a file: its position, its byte colour, its f_dc_* values, and
\* what any other float or integer field of its record holds.
Vertex(x, y, z, rgb, dc, other, tag) ==
  [x |-> x, y |-> y, z |-> z, rgb |-> rgb, dc |-> dc, other |-> other, tag |-> tag]
VertexA ==
  Vertex(FI(1), Lit(-5, 2), Lit(1, 2), <<255, 0, 128>>,
         <<FZero, FI(3), FI(-2)>>, Lit(1, 4), 7)
VertexB ==
  Vertex(FI(-4), FZero, FI(100), <<1, 2, 3>>,
         <<Lit(1, 2), Lit(-1, 2), FI(1)>>, FI(1), 0)

Prop(type, name) == [type |-> type, name |-> name]
\* The property lists of the headers, in declaration order.
Layouts ==
  { <<Prop("float", "x"), Prop("float", "y"), Prop("float", "z")>>,
    <<Prop("float", "x"), Prop("float", "y"), Prop("float", "z"),
      Prop("uchar", "red"), Prop("uchar", "green"), Prop("uchar", "blue")>>,
    <<Prop("float", "x"), Prop("float", "y"), Prop("float", "z"),
      Prop("float", "f_dc_0"), Prop("float", "f_dc_1"), Prop("float", "f_dc_2")>>,
    <<Prop("float", "x"), Prop("float", "y"), Prop("float", "z"),
      Prop("float", "opacity")>>,
    <<Prop("double", "time"), Prop("float", "x"), Prop("float", "y"),
      Prop("float", "z"), Prop("int", "id"), Prop("uchar", "red"),
      Prop("uchar", "green"), Prop("uchar", "blue")>>,
    <<Prop("double", "x"), Prop("double", "y"), Prop("double", "z")>>,
    <<Prop("ushort", "flags"), Prop("float", "x"), Prop("float", "y"),
      Prop("float", "z")>>,
    <<Prop("float", "x"), Prop("float", "y")>>,
    <<>> }

\* The bytes of one field of a record.
FloatField(name, v) ==
  IF name = "x" THEN v.x ELSE IF name = "y" THEN v.y ELSE IF name = "z" THEN v.z
  ELSE IF name = "f_dc_0" THEN v.dc[1] ELSE IF name = "f_dc_1" THEN v.dc[2]
  ELSE IF name = "f_dc_2" THEN v.dc[3] ELSE v.other
ByteField(name, v) ==
  IF name = "red" THEN v.rgb[1] ELSE IF name = "green" THEN v.rgb[2]
  ELSE IF name = "blue" THEN v.rgb[3] ELSE v.tag
EncodeField(p, v) ==
  IF p.type = "float" THEN EncodeFloat32(FloatField(p.name, v))
  ELSE IF p.type = "double" THEN EncodeFloat64(FloatField(p.name, v))
  ELSE IF p.type = "uchar" THEN <<ByteField(p.name, v)>>
  ELSE IF p.type = "ushort" THEN <<ByteField(p.name, v), 0>>
  ELSE <<ByteField(p.name, v), 0, 0, 0>>
RECURSIVE EncodeRecord(_, _, _)
EncodeRecord(props, k, v) ==
  IF k > Len(props) THEN <<>>
  ELSE EncodeField(props[k], v) \o EncodeRecord(props, k + 1, v)
RECURSIVE EncodeRecords(_, _, _)
EncodeRecords(props, vertices, i) ==
  IF i > Len(vertices) THEN <<>>
  ELSE EncodeRecord(props, 1, vertices[i]) \o EncodeRecords(props, vertices, i + 1)

\* The header text.
RECURSIVE PropertyText(_, _)
PropertyText(props, k) ==
  IF k > Len(props) THEN ""
  ELSE "property " \o props[k].type \o " " \o props[k].name \o "\n"
       \o PropertyText(props, k + 1)
CountText(n) == SubSeq(Digits, n + 1, n + 1)
HeaderOf(f) ==
  "ply\nformat binary_little_endian 1.0\n"
  \o (IF f.declared = Undefined THEN ""
      ELSE "element vertex " \o CountText(f.declared) \o "\n")
  \o PropertyText(f.props, 1)
  \o (IF f.marker THEN "end_header\n" ELSE "")

\* A file: its property list, the vertex count its header declares (Undefined
\* for a header without an element vertex line), whether the header ends in
\* end_header, the points whose records follow, and how many bytes are
\* missing from the end.
PlyFile(props, declared, marker, vertices, cut) ==
  [props |-> props, declared |-> declared, marker |-> marker,
   vertices |-> vertices, cut |-> cut]
NoFile == PlyFile(<<>>, Undefined, FALSE, <<>>, 0)
CutBytes == {0, 1, 4}
VertexLists ==
  UNION { [1..n -> {VertexA, VertexB}] : n \in 0..MaxVertices }
RecordBytes(f) == EncodeRecords(f.props, f.vertices, 1)
Files ==
  { f \in { PlyFile(l, d, m, vs, c) :
              l \in Layouts, d \in {Undefined} \cup 0..MaxVertices,
              m \in BOOLEAN, vs \in VertexLists, c \in CutBytes } :
      /\ f.cut <= Len(RecordBytes(f))
      /\ ~f.marker => f.cut = 0 }

\* The buffer that holds file f.
NoBuffer == [text |-> "", body |-> <<>>]
BufferOf(f) ==
  [text |-> HeaderOf(f),
   body |-> SubSeq(RecordBytes(f), 1, Len(RecordBytes(f)) - f.cut)]

\* --------------------------------------------------------------------- state
VARIABLES
  variant,               \* which program runs
  splatLoaded,           \* part_002 splatLoaded / part_001 plyLoaded / script wingsMesh set
  splatBoundingBoxSize,  \* part_002 splatBoundingBoxSize / part_001 plyBoundingBoxSize
  wingsMesh, leftWing, rightWing,
  smoothedWingsPos, smoothedWingsRot,
  smoothedLeftPos, smoothedRightPos, smoothedLeftRot, smoothedRightRot,
  pending,               \* renderLoop invocations awaiting estimatePoses
  ticks,                 \* renderLoop invocations so far
  last,                  \* what the latest step did (history)
  canvas,                \* the 2D output canvas: whose video frame it shows,
                         \* and whose renders were drawn over it since
  isRunning,             \* set by startAR once everything is loaded
  startCalls,            \* how far each call of startAR has come
  frameRequests,         \* renderLoop callbacks requestAnimationFrame holds
  created,               \* how many of each object setupThreeJS and startAR made
  pathIndex,             \* tryLoadPLY: the i of its loop
  attempts,              \* tryLoadPLY: promise, timer and request of each attempt
  loadResult,            \* tryLoadPLY: what it returned or threw
  holdStart, holdTarget, \* a smoothed position driven toward a constant target
  smoothArgs, smoothResult, \* smoothValue: its arguments and what it returned
  plyFile,               \* the file whose bytes are in `buffer` (history)
  buffer,                \* the ArrayBuffer given to parsePLY
  geometry               \* what parsePLY(buffer) gave

setupVars == <<variant, splatLoaded, splatBoundingBoxSize>>
objVars == <<wingsMesh, leftWing, rightWing>>
smoothVars == <<smoothedWingsPos, smoothedWingsRot, smoothedLeftPos,
                smoothedRightPos, smoothedLeftRot, smoothedRightRot>>
plyVars == <<plyFile, buffer, geometry>>
startVars == <<isRunning, startCalls, frameRequests, created>>
loadVars == <<pathIndex, attempts, loadResult>>
holdVars == <<holdStart, holdTarget>>
helperVars == <<smoothArgs, smoothResult>>
vars == <<setupVars, objVars, smoothVars, pending, ticks, last, canvas,
          startVars, plyVars, loadVars, holdVars, helperVars>>
loopVars == <<setupVars, objVars, smoothVars, pending, ticks, last, canvas>>
\* What the frame loop leaves alone.
offLoopVars == <<startVars, plyVars, loadVars, holdVars, helperVars>>

\* One recorded call of a placement function.
Call(fn, side, oldPos, oldRot, r, depth, dist, scale) ==
  [fn |-> fn, side |-> side, oldPos |-> oldPos, oldRot |-> oldRot,
   tPos |-> r.tPos, tRot |-> r.tRot, depth |-> depth, dist |-> dist,
   scale |-> scale]

\* The smoothed triples the programs keep: the point cloud's, and each box's.
Slots == {"wings", "left", "right"}

\* Per slot: how many placements it has had (total), how many of the latest
\* in a row were given the same target (n), and that target.
NoHeld == [n |-> 0, total |-> 0, tPos |-> VZero, tRot |-> VZero]
HeldNext(h, c) ==
  [n |-> IF h.n > 0 /\ h.tPos = c.tPos /\ h.tRot = c.tRot THEN h.n + 1 ELSE 1,
   total |-> h.total + 1, tPos |-> c.tPos, tRot |-> c.tRot]
HeldAfter(held, calls) ==
  [sd \in Slots |->
     IF \E i \in DOMAIN calls : calls[i].side = sd
     THEN HeldNext(held[sd], calls[CHOOSE i \in DOMAIN calls : calls[i].side = sd])
     ELSE held[sd]]

Step(kind, id, outcome, calls, rendered) ==
  [kind |-> kind, id |-> id, outcome |-> outcome, calls |-> calls,
   rendered |-> rendered, held |-> HeldAfter(last.held, calls)]

\* ------------------------------------------------------------------- set-up
\* What loading the asset gave: NoSize when the load failed, else the size of
\* the bounding box of the loaded geometry.
AssetOutcomes == {NoSize} \cup BoundingBoxSizes

\* setupThreeJS: does the point cloud end up in wingsMesh?  part_002 rejects
\* a bounding box whose x is NaN or 0 and falls back to the boxes; part_000
\* loads no asset, its init() always builds the two boxes.
AssetUsable(v, asset) ==
  /\ asset.present
  /\ v # "part_000"
  /\ (v = "part_002" => ~(IsNaN(asset.x) \/ IsZero(asset.x)))

\* createBoxWings / the Points mesh: both start invisible.
Hidden == [NewObject EXCEPT !.visible = FALSE]

\* The variables of the parts of the programs that have not run.
NothingCreated == [stream |-> 0, renderer |-> 0, asset |-> 0, poseModel |-> 0]
OneOfEach == [stream |-> 1, renderer |-> 1, asset |-> 1, poseModel |-> 1]
NotStarted ==
  /\ isRunning = FALSE /\ startCalls = <<>> /\ frameRequests = 0
  /\ created = NothingCreated
NoLoadResult == [status |-> "none", path |-> 0]
NothingLoading == pathIndex = 0 /\ attempts = <<>> /\ loadResult = NoLoadResult
NothingHeld == holdStart = VZero /\ holdTarget = VZero
NothingSmoothed == smoothArgs = <<>> /\ smoothResult = <<>>

\* The 2D canvas before anything is drawn on it.
BlankCanvas == [video |-> 0, over |-> <<>>]
\* ctx.drawImage(video, ...): the frame of tick id covers the whole canvas.
DrawVideo(id) == [video |-> id, over |-> <<>>]
\* ctx.drawImage(renderer.domElement, 0, 0): the render of tick id goes over
\* what the canvas shows.
Composite(c, id) == [c EXCEPT !.over = Append(@, id)]

\* The state in which startAR has called renderLoop for the first time.
Init ==
  \E v \in Variants, asset \in AssetOutcomes :
    /\ variant = v
    /\ splatLoaded = AssetUsable(v, asset)
    /\ splatBoundingBoxSize =
         (IF AssetUsable(v, asset) /\ v # "script" THEN asset ELSE NoSize)
    /\ wingsMesh = (IF AssetUsable(v, asset) THEN Hidden ELSE NoObject)
    \* with the point cloud loaded, script.js and part_001 make leftWing and
    \* rightWing aliases of wingsMesh and part_002 leaves them null: no box
    \* exists, and the aliases are never used as objects of their own
    /\ leftWing = (IF AssetUsable(v, asset) THEN NoObject ELSE Hidden)
    /\ rightWing = (IF AssetUsable(v, asset) THEN NoObject ELSE Hidden)
    /\ smoothedWingsPos = VZero /\ smoothedWingsRot = VZero
    /\ smoothedLeftPos = VZero /\ smoothedRightPos = VZero
    /\ smoothedLeftRot = VZero /\ smoothedRightRot = VZero
    /\ pending = {}
    /\ ticks = 0
    /\ last = [kind |-> "init", id |-> 0, outcome |-> NoOutcome, calls |-> <<>>,
               rendered |-> FALSE, held |-> [sd \in Slots |-> NoHeld]]
    /\ canvas = BlankCanvas
    /\ isRunning = TRUE
    /\ startCalls = <<"running">>
    /\ frameRequests = 0
    /\ created = OneOfEach
    /\ plyFile = NoFile /\ buffer = NoBuffer /\ geometry = NoGeometry
    /\ NothingLoading /\ NothingHeld /\ NothingSmoothed

\* ---------------------------------------------------------------- renderLoop
\* renderLoop up to `await poseModel.estimatePoses(video)`: the next frame is
\* requested, the video frame is drawn, pose inference starts.
RenderLoopAwait ==
  /\ (variant # "part_000" => isRunning)  \* animate has no such test
  /\ ticks < MaxTicks
  /\ Cardinality(pending) < MaxInFlight
  /\ ticks' = ticks + 1
  /\ canvas' = (IF variant = "part_000" THEN canvas ELSE DrawVideo(ticks + 1))
  /\ pending' = pending \cup {ticks + 1}
  /\ last' = Step("await", ticks + 1, NoOutcome, <<>>, FALSE)
  /\ UNCHANGED <<setupVars, objVars, smoothVars, offLoopVars>>

\* renderLoop while video.readyState is not HAVE_ENOUGH_DATA: pose tracking
\* is skipped, the scene is rendered and composited.
RenderLoopNoData ==
  /\ (variant # "part_000" => isRunning)  \* animate has no such test
  /\ ticks < MaxTicks
  /\ ticks' = ticks + 1
  /\ canvas' = (IF variant = "part_000" THEN canvas
                ELSE Composite(DrawVideo(ticks + 1), ticks + 1))
  /\ last' = Step("nodata", ticks + 1, NoOutcome, <<>>, TRUE)
  /\ UNCHANGED <<setupVars, objVars, smoothVars, pending, offLoopVars>>

Hide(obj) == IF obj.exists THEN [obj EXCEPT !.visible = FALSE] ELSE obj
Show(obj) == [obj EXCEPT !.visible = TRUE]

\* The low-confidence and no-pose branches: every overlay object is hidden,
\* the smoothed state is left alone.
HideOverlay(kind, id, o) ==
  /\ wingsMesh' = Hide(wingsMesh)
  /\ leftWing' = (IF variant = "part_002" THEN leftWing ELSE Hide(leftWing))
  /\ rightWing' = (IF variant = "part_002" THEN rightWing ELSE Hide(rightWing))
  /\ last' = Step(kind, id, o, <<>>, TRUE)
  /\ UNCHANGED smoothVars

\* renderLoop: what a frame measures from the pose before placing.
Measured(dist, spine, angle) ==
  [dist |-> dist, depth |-> Depth(dist), scale |-> SubjectScale(dist),
   spine |-> spine, angle |-> angle]
Measure(o) ==
  Measured(ShoulderDist(o.ls, o.rs), Midpoint(o.ls, o.rs),
           ShoulderAngle(o.ls, o.rs))
MeasureWithHips(o) ==
  Measured(ShoulderDist(o.ls, o.rs), SpineWithHips(o.ls, o.rs, o.lh, o.rh),
           ShoulderAngle(o.ls, o.rs))

\* A confident frame that finds no object to place.
PlaceNothing(id, o) ==
  /\ last' = Step("placed", id, o, <<>>, TRUE)
  /\ UNCHANGED <<objVars, smoothVars>>

\* PlaceWings leaving the frame without the render that follows the placement.
PlaceWingsUnrendered(fn, id, o, r, m) ==
  /\ wingsMesh' = Show(r.obj)
  /\ smoothedWingsPos' = r.sPos
  /\ smoothedWingsRot' = r.sRot
  /\ last' = Step("placed", id, o,
                  <<Call(fn, "wings", smoothedWingsPos, smoothedWingsRot, r,
                         m.depth, m.dist, m.scale)>>,
                  FALSE)
  /\ UNCHANGED <<leftWing, rightWing, smoothedLeftPos, smoothedRightPos,
                 smoothedLeftRot, smoothedRightRot>>

\* The point cloud placed by fn, with result r, and made visible.
PlaceWings(fn, id, o, r, m) ==
  /\ wingsMesh' = Show(r.obj)
  /\ smoothedWingsPos' = r.sPos
  /\ smoothedWingsRot' = r.sRot
  /\ last' = Step("placed", id, o,
                  <<Call(fn, "wings", smoothedWingsPos, smoothedWingsRot, r,
                         m.depth, m.dist, m.scale)>>,
                  TRUE)
  /\ UNCHANGED <<leftWing, rightWing, smoothedLeftPos, smoothedRightPos,
                 smoothedLeftRot, smoothedRightRot>>

\* Both box wings placed by fn, with results l and r, and made visible.
PlaceBoxes(fn, id, o, l, r, m) ==
  /\ leftWing' = Show(l.obj)
  /\ rightWing' = Show(r.obj)
  /\ smoothedLeftPos' = l.sPos /\ smoothedLeftRot' = l.sRot
  /\ smoothedRightPos' = r.sPos /\ smoothedRightRot' = r.sRot
  /\ last' = Step("placed", id, o,
                  <<Call(fn, "left", smoothedLeftPos, smoothedLeftRot, l,
                         m.depth, m.dist, m.scale),
                    Call(fn, "right", smoothedRightPos, smoothedRightRot, r,
                         m.depth, m.dist, m.scale)>>,
                  TRUE)
  /\ UNCHANGED <<wingsMesh, smoothedWingsPos, smoothedWingsRot>>

\* part_002 renderLoop, the confident branch.
TrackPart002(id, o, m) ==
  IF splatLoaded /\ wingsMesh.exists
  THEN PlaceWings("positionSplat", id, o,
         PositionSplat(wingsMesh, m.spine, m.depth, m.scale, m.angle, m.dist,
                       smoothedWingsPos, smoothedWingsRot, splatBoundingBoxSize),
         m)
  ELSE \* else if (leftWing) { /* Fallback logic here */ }
       PlaceNothing(id, o)

\* part_002 renderLoop after the await (no try/catch around it).
ResumePart002(id, o) ==
  /\ variant = "part_002"
  /\ id \in pending
  /\ pending' = pending \ {id}
  /\ UNCHANGED <<setupVars, ticks, offLoopVars>>
  /\ IF o.kind = "rejected" \/ (o.kind = "pose" /\ ShoulderMissing(o.ls, o.rs))
     THEN \* the exception leaves renderLoop: nothing is rendered this frame
          /\ last' = Step("threw", id, o, <<>>, FALSE)
          /\ UNCHANGED <<objVars, smoothVars>>
     ELSE IF o.kind = "empty" THEN HideOverlay("nopose", id, o)
     ELSE IF ~Confident("part_002", o.ls, o.rs) THEN HideOverlay("lowconf", id, o)
     ELSE TrackPart002(id, o, Measure(o))
  /\ canvas' = (IF last'.rendered THEN Composite(canvas, id) ELSE canvas)

\* script.js renderLoop, the confident branch.
TrackScript(id, o, m) ==
  IF wingsMesh.exists
  THEN PlaceWings("positionWingsOnBack", id, o,
         PositionWingsOnBack(wingsMesh, m.spine, m.depth, m.scale, m.angle,
                             smoothedWingsPos, smoothedWingsRot),
         m)
  ELSE IF leftWing.exists /\ rightWing.exists
  THEN PlaceBoxes("positionWingGluedToBack", id, o,
         PositionWingGluedToBack(leftWing,
           IF CAMERA_MODE = "user" THEN o.rs ELSE o.ls,
           m.spine, m.depth, m.scale, m.angle, "left",
           smoothedLeftPos, smoothedLeftRot),
         PositionWingGluedToBack(rightWing,
           IF CAMERA_MODE = "user" THEN o.ls ELSE o.rs,
           m.spine, m.depth, m.scale, m.angle, "right",
           smoothedRightPos, smoothedRightRot),
         m)
  ELSE PlaceNothing(id, o)

\* script.js renderLoop after the await, inside try/catch.
ResumeScript(id, o) ==
  /\ variant = "script"
  /\ id \in pending
  /\ pending' = pending \ {id}
  /\ UNCHANGED <<setupVars, ticks, offLoopVars>>
  /\ IF o.kind = "rejected"
     THEN /\ last' = Step("caught", id, o, <<>>, TRUE)
          /\ UNCHANGED <<objVars, smoothVars>>
     ELSE IF o.kind = "empty" THEN HideOverlay("nopose", id, o)
     ELSE IF ~Confident("script", o.ls, o.rs) THEN HideOverlay("lowconf", id, o)
     ELSE TrackScript(id, o, MeasureWithHips(o))
  /\ canvas' = (IF last'.rendered THEN Composite(canvas, id) ELSE canvas)

\* part_001 renderLoop, the confident branch.
TrackPart001(id, o, m) ==
  IF splatLoaded /\ wingsMesh.exists
  THEN PlaceWings("positionWings", id, o,
         PositionWings(wingsMesh, m.spine, m.depth, m.scale, m.angle,
                       smoothedWingsPos, smoothedWingsRot, splatBoundingBoxSize),
         m)
  ELSE IF leftWing.exists /\ rightWing.exists
  THEN PlaceBoxes("positionBox", id, o,
         PositionBox(leftWing, o.ls, m.spine, m.depth, m.scale, m.angle,
                     "left", smoothedLeftPos, smoothedLeftRot),
         PositionBox(rightWing, o.rs, m.spine, m.depth, m.scale, m.angle,
                     "right", smoothedRightPos, smoothedRightRot),
         m)
  ELSE PlaceNothing(id, o)

\* part_001 renderLoop after the await, inside try/catch.
ResumePart001(id, o) ==
  /\ variant = "part_001"
  /\ id \in pending
  /\ pending' = pending \ {id}
  /\ UNCHANGED <<setupVars, ticks, offLoopVars>>
  /\ IF o.kind = "rejected"
     THEN /\ last' = Step("caught", id, o, <<>>, TRUE)
          /\ UNCHANGED <<objVars, smoothVars>>
     ELSE IF o.kind = "empty" THEN HideOverlay("nopose", id, o)
     ELSE IF ~Confident("part_001", o.ls, o.rs) THEN HideOverlay("lowconf", id, o)
     ELSE TrackPart001(id, o, MeasureWithHips(o))
  /\ canvas' = (IF last'.rendered THEN Composite(canvas, id) ELSE canvas)

\* Both boxes written by fn without smoothing, with results l and r, and made
\* visible.
PlaceUnsmoothed(fn, id, o, l, r, m) ==
  /\ leftWing' = Show(l.obj)
  /\ rightWing' = Show(r.obj)
  /\ last' = Step("placed", id, o,
                  <<Call(fn, "left", smoothedLeftPos, smoothedLeftRot, l,
                         m.depth, m.dist, m.scale),
                    Call(fn, "right", smoothedRightPos, smoothedRightRot, r,
                         m.depth, m.dist, m.scale)>>,
                  TRUE)
  /\ UNCHANGED <<wingsMesh, smoothVars>>

\* part_000 animate: shoulderDistance, estimatedDepth and scale of a frame.
MeasureAnimate(shoulderDistance) ==
  [dist |-> shoulderDistance, depth |-> EstimatedDepth(shoulderDistance),
   scale |-> ScaleOfDistance(shoulderDistance)]

\* part_000 animate, the confident branch.
TrackPart000(id, o, m) ==
  PlaceUnsmoothed("positionWing", id, o,
    PositionWing(leftWing, o.ls, m.depth, m.scale, "left"),
    PositionWing(rightWing, o.rs, m.depth, m.scale, "right"),
    m)

\* part_000 animate after the await, inside try/catch.
ResumePart000(id, o) ==
  /\ variant = "part_000"
  /\ id \in pending
  /\ pending' = pending \ {id}
  /\ UNCHANGED <<setupVars, ticks, offLoopVars>>
  /\ IF o.kind = "rejected"
     THEN /\ last' = Step("caught", id, o, <<>>, TRUE)
          /\ UNCHANGED <<objVars, smoothVars>>
     ELSE IF o.kind = "empty" THEN HideOverlay("nopose", id, o)
     ELSE IF ~Confident("part_000", o.ls, o.rs) THEN HideOverlay("lowconf", id, o)
     ELSE TrackPart000(id, o, MeasureAnimate(ShoulderDist(o.ls, o.rs)))
  /\ UNCHANGED canvas \* animate draws on no 2D canvas

Next ==
  \/ RenderLoopAwait
  \/ RenderLoopNoData
  \/ \E id \in pending, o \in PoseOutcomes : ResumePart000(id, o)
  \/ \E id \in pending, o \in PoseOutcomes : ResumePart002(id, o)
  \/ \E id \in pending, o \in PoseOutcomes : ResumeScript(id, o)
  \/ \E id \in pending, o \in PoseOutcomes : ResumePart001(id, o)

Spec == Init /\ [][Next]_vars

\* ------------------------------------------------------------- the loader
\* part_002 before setupThreeJS has built anything (lines 117-133), with the
\* bytes of a file fetched into `buffer`.
InitPLY ==
  /\ variant = "part_002"
  /\ splatLoaded = FALSE /\ splatBoundingBoxSize = NoSize
  /\ wingsMesh = NoObject /\ leftWing = NoObject /\ rightWing = NoObject
  /\ smoothedWingsPos = VZero /\ smoothedWingsRot = VZero
  /\ smoothedLeftPos = VZero /\ smoothedRightPos = VZero
  /\ smoothedLeftRot = VZero /\ smoothedRightRot = VZero
  /\ pending = {}
  /\ ticks = 0
  /\ last = [kind |-> "init", id |-> 0, outcome |-> NoOutcome, calls |-> <<>>,
             rendered |-> FALSE, held |-> [sd \in Slots |-> NoHeld]]
  /\ canvas = BlankCanvas
  /\ NotStarted
  /\ NothingLoading /\ NothingHeld /\ NothingSmoothed
  /\ \E f \in Files : plyFile = f /\ buffer = BufferOf(f)
  /\ geometry = NoGeometry

\* GaussianSplatLoader.load: return this.parsePLY(buffer)
LoadParsePLY ==
  /\ geometry.status = "none"
  /\ geometry' = ParsePLY(buffer)
  /\ UNCHANGED <<loopVars, startVars, loadVars, holdVars, helperVars,
                 plyFile, buffer>>

NextPLY == LoadParsePLY

SpecPLY == InitPLY /\ [][NextPLY]_vars

\* ================================================================ properties
\* The steps in which a renderLoop invocation resumed after its await.
ResumedKinds == {"placed", "lowconf", "nopose", "caught", "threw"}
\* The steps in which estimatePoses resolved and the frame ran to its end.
CompletedKinds == {"placed", "lowconf", "nopose"}

\* The object, smoothed position and smoothed rotation of a slot.
ObjectOf(sd) ==
  IF sd = "wings" THEN wingsMesh ELSE IF sd = "left" THEN leftWing ELSE rightWing
SmoothedPosOf(sd) ==
  IF sd = "wings" THEN smoothedWingsPos
  ELSE IF sd = "left" THEN smoothedLeftPos ELSE smoothedRightPos
SmoothedRotOf(sd) ==
  IF sd = "wings" THEN smoothedWingsRot
  ELSE IF sd = "left" THEN smoothedLeftRot ELSE smoothedRightRot

Axes == {"x", "y", "z"}
CallsOfLast == {last.calls[i] : i \in DOMAIN last.calls}
\* The calls of the functions that keep a smoothed state (part_000's
\* positionWing keeps none).
SmoothedCalls == {c \in CallsOfLast : c.fn # "positionWing"}

\* The pose has both shoulders and one of them scores <= thr.
LowShoulder(o, thr) ==
  /\ o.kind = "pose" /\ o.ls.present /\ o.rs.present
  /\ (FLe(o.ls.score, thr) \/ FLe(o.rs.score, thr))

\* The frame that resumed in this step placed nothing and left the smoothed
\* state as it was.
NoUpdate == last'.calls = <<>> /\ UNCHANGED smoothVars

\* C1 (as amended): for every tick of the frame loop in which no pose is
\* returned or either shoulder's score is <= the loop's own confidence
\* threshold (0.4 in part_002, 0.3 in the other programs), no placement
\* function is invoked and every component of the smoothed position and
\* rotation is the same after the tick as before it.
C1_NoUpdateBelowLoopThreshold ==
  [][ ( /\ last'.kind \in ResumedKinds
        /\ \/ last'.outcome.kind = "empty"
           \/ LowShoulder(last'.outcome, ConfidenceThreshold(variant)) )
      => NoUpdate ]_vars

\* C1 witness: a part_001 frame with a poorly scored shoulder has completed
\* after earlier placements moved the smoothed state away from zero.
C1_Witness ==
  /\ last.kind = "lowconf" /\ variant = "part_001"
  /\ LowShoulder(last.outcome, ConfidenceThreshold(variant))
  /\ last.held["wings"].total > 0 /\ smoothedWingsPos # VZero

\* C1 as stated: for every tick in which no pose is returned or either
\* shoulder's score is <= 0.4, no placement function is invoked and the
\* smoothed state is unchanged.
C1_NoUpdateBelowPoint4 ==
  [][ ( /\ last'.kind \in ResumedKinds
        /\ \/ last'.outcome.kind = "empty"
           \/ LowShoulder(last'.outcome, Lit(4, 10)) )
      => NoUpdate ]_vars

\* old + (T - old) * SMOOTHING_FACTOR on one axis, and on the three of them
Blend(old, t) == FAdd(old, FMul(FSub(t, old), SMOOTHING_FACTOR))
BlendVec(old, t) == Vec3(Blend(old.x, t.x), Blend(old.y, t.y), Blend(old.z, t.z))

SmoothingFunctions ==
  {"positionSplat", "positionWingsOnBack", "positionWingGluedToBack"}

\* C2: each invocation of positionSplat, positionWingsOnBack or
\* positionWingGluedToBack with target T replaces every axis of the smoothed
\* position and rotation by old + (T - old) * SMOOTHING_FACTOR, each axis from
\* its own previous value and target, and writes exactly those values to the
\* object's position and rotation.
C2_AxiswiseBlendWritten ==
  \A c \in CallsOfLast :
    c.fn \in SmoothingFunctions =>
      /\ SmoothedPosOf(c.side) = BlendVec(c.oldPos, c.tPos)
      /\ SmoothedRotOf(c.side) = BlendVec(c.oldRot, c.tRot)
      /\ ObjectOf(c.side).position = SmoothedPosOf(c.side)
      /\ ObjectOf(c.side).rotation = SmoothedRotOf(c.side)

\* C2 witness: positionWingGluedToBack has just placed both boxes from a
\* smoothed state that an earlier frame had already moved, toward a finite
\* target.
C2_Witness ==
  /\ last.kind = "placed" /\ Len(last.calls) = 2
  /\ \A c \in CallsOfLast :
       /\ c.fn = "positionWingGluedToBack"
       /\ c.oldPos # VZero /\ c.oldRot # VZero
       /\ VecFinite(c.tPos) /\ VecFinite(c.tRot)
       /\ SmoothedPosOf(c.side) # c.oldPos

\* |s - t|, taken as 0 when s is t (so that an infinite value sitting on an
\* infinite target counts as arrived).
AxisDistance(s, t) == IF FEq(s, t) THEN FZero ELSE FAbs(FSub(s, t))

\* One smoothing step old -> new toward t: the distance does not grow, it
\* shrinks unless it was zero, and new is not on the other side of t.
Approaches(old, new, t) ==
  /\ FLe(AxisDistance(new, t), AxisDistance(old, t))
  /\ (~FEq(old, t) => FLt(AxisDistance(new, t), AxisDistance(old, t)))
  /\ (FLe(old, t) => FLe(new, t))
  /\ (FLe(t, old) => FLe(t, new))

\* Every placement the slot has had was given this same target.
HeldThroughout(sd) == last.held[sd].n = last.held[sd].total

\* C3 as stated: if the same target transform is supplied on every placement
\* tick, then on each axis |smoothed - target| never increases, strictly
\* decreases while non-zero, and the smoothed value never crosses the target.
C3_MonotoneApproach ==
  \A c \in SmoothedCalls :
    HeldThroughout(c.side) =>
      \A a \in Axes :
        /\ Approaches(c.oldPos[a], SmoothedPosOf(c.side)[a], c.tPos[a])
        /\ Approaches(c.oldRot[a], SmoothedRotOf(c.side)[a], c.tRot[a])

OverlayShown ==
  IF wingsMesh.exists THEN wingsMesh.visible
  ELSE leftWing.exists /\ leftWing.visible /\ rightWing.exists /\ rightWing.visible
OverlayHidden ==
  \A sd \in Slots : ~(ObjectOf(sd).exists /\ ObjectOf(sd).visible)

\* C5 as stated: after every completed tick that ran pose detection, the
\* overlay is visible if and only if that tick found a pose whose two shoulder
\* scores both exceed the confidence threshold, whichever asset is in use.
C5_VisibleIffConfident ==
  last.kind \in CompletedKinds =>
    IF last.outcome.kind = "pose"
       /\ Confident(variant, last.outcome.ls, last.outcome.rs)
    THEN OverlayShown ELSE OverlayHidden

\* C6 as stated: for finite shoulders that pass the confidence check
\* (coincident ones included) placement leaves every smoothed position and
\* rotation component and the applied scale finite.
C6_PlacementFinite ==
  \A c \in CallsOfLast :
    /\ VecFinite(SmoothedPosOf(c.side))
    /\ VecFinite(SmoothedRotOf(c.side))
    /\ VecFinite(ObjectOf(c.side).scale)

\* Shoulder distances to compare depths at.
SampleDistances == {FZero, Lit(1, 2), FI(1), FI(150), FI(200), FI(1000)}

\* C7 as stated: the depth used by placement equals -2.0 - 150 / max(1, d);
\* it is finite, lies in [-152, -2), and moves toward -2.0 as d grows.
C7_DepthFormula ==
  \A c \in CallsOfLast :
    /\ FEq(c.depth, FSub(FI(-2), FDiv(FI(150), FMax(FI(1), c.dist))))
    /\ IsFinite(c.depth)
    /\ FLe(FI(-152), c.depth) /\ FLt(c.depth, FI(-2))
    /\ \A d \in SampleDistances :
         FLe(c.dist, d) => FLe(c.depth, Depth(d))

\* C8 as stated: from the zero-initialised smoothed state, after any
\* non-empty sequence of placement ticks the smoothed position applied to the
\* overlay is finite and its Z component is strictly negative.
C8_FiniteInFront ==
  \A c \in SmoothedCalls :
    /\ ObjectOf(c.side).position = SmoothedPosOf(c.side)
    /\ VecFinite(SmoothedPosOf(c.side))
    /\ FLt(SmoothedPosOf(c.side).z, FZero)

\* The functions that scale the asset by its bounding box.
ScaleFactorOf(v, bbox, scale) ==
  IF v = "part_002" THEN SplatScaleFactor(bbox, scale)
  ELSE WingsScaleFactor(bbox, scale)
BoxScalingFunctions == {"positionSplat", "positionWings"}

\* Bounding boxes whose average dimension is twice that of bbox.
Doublings(bbox) ==
  { b \in { Size(FMul(FI(2), bbox.x), FMul(FI(2), bbox.y), FMul(FI(2), bbox.z)),
            Size(FMul(FI(2), bbox.z), FMul(FI(2), bbox.x), FMul(FI(2), bbox.y)),
            Size(FMul(FI(2), BoxAverage(bbox)), FMul(FI(2), BoxAverage(bbox)),
                 FMul(FI(2), BoxAverage(bbox))),
            Size(FMul(FI(3), bbox.x), FMul(FI(3), bbox.y), FZero) } :
      FEq(BoxAverage(b), FMul(FI(2), BoxAverage(bbox))) }

\* C9: with the subject scale held fixed, doubling the asset's average
\* bounding-box dimension (x + y + z) / 3 exactly halves the scale factor
\* applied to the asset.
C9_DoublingHalves ==
  \A c \in CallsOfLast :
    (c.fn \in BoxScalingFunctions /\ splatBoundingBoxSize.present) =>
      /\ wingsMesh.scale = Uniform(ScaleFactorOf(variant, splatBoundingBoxSize, c.scale))
      /\ \A b \in Doublings(splatBoundingBoxSize) :
           ScaleFactorOf(variant, b, c.scale) = FDiv(wingsMesh.scale.x, FI(2))

\* C9 witness: positionSplat has scaled a splat whose bounding box is
\* 2 x 4 x 3 for a subject nearer than the 0.5 floor of the subject scale,
\* and the box has more than one doubling.
C9_Witness ==
  /\ variant = "part_002" /\ last.kind = "placed"
  /\ \E c \in CallsOfLast : c.fn = "positionSplat" /\ FGt(c.scale, Lit(1, 2))
  /\ splatBoundingBoxSize = Size(FI(2), FI(4), FI(3))
  /\ Cardinality(Doublings(splatBoundingBoxSize)) > 1
  /\ IsFinite(wingsMesh.scale.x) /\ ~IsZero(wingsMesh.scale.x)

\* C10 as stated: the scale factor applied to the asset on every placement is
\* finite and strictly positive (1.0 replacing a non-finite or non-positive
\* value), and without a bounding-box size it is the raw scale * constant.
C10_ScaleFinitePositive ==
  \A c \in CallsOfLast :
    c.fn \in BoxScalingFunctions =>
      /\ IsFinite(wingsMesh.scale.x) /\ FGt(wingsMesh.scale.x, FZero)
      /\ wingsMesh.scale = Uniform(wingsMesh.scale.x)
      /\ (~splatBoundingBoxSize.present =>
            wingsMesh.scale.x = FMul(c.scale, Lit(1, 2)))

\* C11 as stated: on every placement the subject scale equals
\* max(0.5, d / 150) for the shoulder distance d, so the scale passed to
\* placement is never below 0.5.
C11_ScaleFloor ==
  \A c \in CallsOfLast :
    /\ FEq(c.scale, FMax(Lit(1, 2), FDiv(c.dist, FI(150))))
    /\ FLe(Lit(1, 2), c.scale)

\* C18 as stated: if the pose source throws or rejects during a tick, that
\* tick performs no placement and changes no smoothed state and no overlay
\* visibility, the failure does not escape the tick, and the tick still
\* renders.
C18_RejectionContained ==
  [][ (last'.kind \in ResumedKinds /\ last'.outcome.kind = "rejected")
      => /\ last'.kind = "caught"
         /\ last'.rendered
         /\ NoUpdate
         /\ UNCHANGED objVars ]_vars

\* The first pose of the frame lacks a left_shoulder or right_shoulder keypoint.
LacksShoulder(o) == o.kind = "pose" /\ (~o.ls.present \/ ~o.rs.present)

\* C19 as stated: a detected pose that lacks a shoulder keypoint is handled
\* as insufficient tracking: the overlay is hidden, placement is skipped, and
\* no exception leaves the tick.
C19_MissingShoulderHandled ==
  (last.kind \in ResumedKinds /\ LacksShoulder(last.outcome))
    => /\ last.kind = "lowconf"
       /\ last.calls = <<>>
       /\ OverlayHidden

\* The sides placed by the latest step.
SidesPlaced == {c.side : c \in CallsOfLast}

\* C20 as stated: if loading the overlay asset fails, box placeholder wings
\* exist, the frame loop runs, and after every tick with confident shoulders
\* the placeholders have been positioned and are visible, and they are hidden
\* after a tick that lost tracking.
C20_PlaceholdersTrack ==
  (variant # "part_000" /\ ~wingsMesh.exists /\ last.kind \in CompletedKinds)
    => /\ leftWing.exists /\ rightWing.exists
       /\ IF last.outcome.kind = "pose"
             /\ Confident(variant, last.outcome.ls, last.outcome.rs)
          THEN /\ SidesPlaced = {"left", "right"}
               /\ leftWing.visible /\ rightWing.visible
          ELSE ~leftWing.visible /\ ~rightWing.visible

\* ================================================= properties of parsePLY
Names(props) == {props[k].name : k \in DOMAIN props}
Declares(props, type, names) ==
  \A n \in names : \E k \in DOMAIN props : props[k] = Prop(type, n)

\* The size of one record of the file, and the length of its header.
RecordSize(props) == Len(EncodeRecord(props, 1, VertexA))

\* A textual header followed by N >= 1 fixed-stride little-endian records:
\* the header is complete and declares as many records as follow it.
WellFormed(f) ==
  /\ f.marker
  /\ {"x", "y", "z"} \subseteq Names(f.props)
  /\ f.declared = Len(f.vertices) /\ Len(f.vertices) >= 1
  /\ f.cut = 0

\* The triples the file stores, in file order.
Component(v, k) == IF k = 0 THEN v.x ELSE IF k = 1 THEN v.y ELSE v.z
ExpectedPositions(f) ==
  [j \in 1..(3 * Len(f.vertices)) |->
     Component(f.vertices[((j - 1) \div 3) + 1], (j - 1) % 3)]
ExpectedColor(props, v, k) ==
  IF Declares(props, "float", {"f_dc_0", "f_dc_1", "f_dc_2"})
  THEN FAdd(Lit(1, 2), FMul(SH_C0, v.dc[k]))
  ELSE IF {"red", "green", "blue"} \subseteq Names(props)
  THEN FDiv(FI(v.rgb[k]), FI(255))
  ELSE FI(1)
ExpectedColors(f) ==
  [j \in 1..(3 * Len(f.vertices)) |->
     ExpectedColor(f.props, f.vertices[((j - 1) \div 3) + 1], ((j - 1) % 3) + 1)]
RoundTrips ==
  /\ geometry.status = "returned"
  /\ geometry.positions = ExpectedPositions(plyFile)
  /\ geometry.colors = ExpectedColors(plyFile)

\* C12 as stated: for every N >= 1 and every well-formed buffer, parsePLY
\* returns exactly N position triples and N colour triples, the i-th being the
\* decoding of the i-th record of the file (byte / 255 for red/green/blue,
\* 0.5 + C0 * raw for float f_dc fields, white without a colour field), in
\* file order.
C12_RoundTrip ==
  (geometry.status # "none" /\ WellFormed(plyFile)) => RoundTrips

\* The layouts whose fields all have a type of typeSizeBytes and whose x, y
\* and z are floats: for them the round trip holds.
FloatLayout(props) ==
  /\ \A k \in DOMAIN props : TypeSizeBytes(props[k].type) > 0
  /\ Declares(props, "float", {"x", "y", "z"})
RoundTripOfFloatLayouts ==
  (geometry.status # "none" /\ WellFormed(plyFile) /\ FloatLayout(plyFile.props))
    => RoundTrips

\* C13: whenever parsePLY returns a result, positions.length = colors.length
\* = 3 * the vertex count declared in the header.
C13_ArrayLengths ==
  geometry.status = "returned" =>
    /\ plyFile.declared # Undefined
    /\ Len(geometry.positions) = 3 * plyFile.declared
    /\ Len(geometry.colors) = 3 * plyFile.declared

\* C13 witness: parsePLY has returned for a header that declares fewer
\* vertices than the buffer holds records.
C13_Witness ==
  /\ geometry.status = "returned"
  /\ plyFile.declared >= 1
  /\ Len(plyFile.vertices) > plyFile.declared
  /\ Len(geometry.positions) = 3 * plyFile.declared

\* C14 as stated: parsePLY fails with an error, returning no geometry,
\* whenever the header declares an element vertex count of 0.
C14_ZeroCountFails ==
  (geometry.status # "none" /\ plyFile.declared = 0) => geometry.status = "threw"

\* The buffer is shorter than headerEnd + vertexCount * stride.
Truncated(f) ==
  /\ f.marker /\ f.declared # Undefined
  /\ Len(BufferOf(f).body) < f.declared * RecordSize(f.props)

\* C15 as stated: parsePLY fails with an error, rather than returning
\* truncated or garbage data, for every buffer whose length is less than
\* headerEnd + vertexCount * stride.
C15_TruncatedFails ==
  (geometry.status # "none" /\ Truncated(plyFile)) => geometry.status = "threw"

\* The header has no end_header marker, no element vertex count, no property
\* lines, or lacks one of x, y, z.
Malformed(f) ==
  \/ ~f.marker
  \/ f.declared = Undefined
  \/ f.props = <<>>
  \/ ~({"x", "y", "z"} \subseteq Names(f.props))
InvalidPlyErrors ==
  { "Invalid PLY: Missing 'element vertex' count.",
    "Invalid PLY: No properties found in header.",
    "Invalid PLY: Could not find all position properties (x, y, z)." }

\* C16: parsePLY fails with a descriptive error and returns nothing whenever
\* the header is malformed: it has no end_header marker, no 'element vertex'
\* count, no property lines, or lacks any one of the x, y, z fields.
C16_MalformedHeaderFails ==
  (geometry.status # "none" /\ Malformed(plyFile)) =>
    /\ geometry.status = "threw"
    /\ geometry.error \in InvalidPlyErrors
    /\ geometry.positions = <<>> /\ geometry.colors = <<>>

\* C16 witness: parsePLY has thrown for a header that lacks only its
\* end_header marker, its records being present in full.
C16_Witness ==
  /\ geometry.status = "threw"
  /\ ~plyFile.marker
  /\ plyFile.declared = Len(plyFile.vertices) /\ Len(plyFile.vertices) >= 1
  /\ Declares(plyFile.props, "float", {"x", "y", "z"})
  /\ geometry.error = "Invalid PLY: No properties found in header."

\* C17 as stated: every colour component returned by parsePLY lies in [0, 1],
\* on the byte path, on the f_dc path for every stored raw value, and on the
\* white fallback path.
C17_ColorsInUnitRange ==
  geometry.status = "returned" =>
    \A j \in DOMAIN geometry.colors :
      FLe(FZero, geometry.colors[j]) /\ FLe(geometry.colors[j], FI(1))

\* ---------------------------------------------- a constant target, held
\* positionSplat's position update (part_002 lines 372-374) on tick after
\* tick with the same targetPos, in binary64.  Starts: the zero-initialised
\* smoothedWingsPos of line 127, and a position far from the target.
HoldTicks == 75
Vec64(x, y, z) == Vec3(x, y, z)
VZero64 == Vec64(D64Zero, D64Zero, D64Zero)
HoldStarts ==
  {VZero64, Vec64(D64Lit(1000000, 1), D64Lit(-1000000, 1), D64Lit(1000000, 1))}
HoldTargets ==
  {Vec64(D64Lit(3, 10), D64Lit(-2, 10), D64Lit(-275, 100)),
   Vec64(D64Lit(1, 1), D64Zero, D64Lit(-152, 1)),
   Vec64(D64Lit(-75, 100), D64Lit(1, 10), D64Lit(-35, 10))}

InitHold ==
  /\ variant = "part_002"
  /\ splatLoaded = TRUE /\ splatBoundingBoxSize = NoSize
  /\ wingsMesh = Hidden /\ leftWing = NoObject /\ rightWing = NoObject
  /\ \E start \in HoldStarts, target \in HoldTargets :
       /\ holdStart = start /\ holdTarget = target
       /\ smoothedWingsPos = start
  /\ smoothedWingsRot = VZero
  /\ smoothedLeftPos = VZero /\ smoothedRightPos = VZero
  /\ smoothedLeftRot = VZero /\ smoothedRightRot = VZero
  /\ pending = {}
  /\ ticks = 0
  /\ last = [kind |-> "init", id |-> 0, outcome |-> NoOutcome, calls |-> <<>>,
             rendered |-> FALSE, held |-> [sd \in Slots |-> NoHeld]]
  /\ canvas = BlankCanvas
  /\ isRunning = TRUE /\ startCalls = <<"running">> /\ frameRequests = 0
  /\ created = OneOfEach
  /\ plyFile = NoFile /\ buffer = NoBuffer /\ geometry = NoGeometry
  /\ NothingLoading /\ NothingSmoothed

\* One placement tick: smoothedWingsPos.a += (targetPos.a - smoothedWingsPos.a)
\* * SMOOTHING_FACTOR on the three axes.
HoldTick ==
  /\ ticks < HoldTicks
  /\ ticks' = ticks + 1
  /\ smoothedWingsPos' = SmoothVec64(smoothedWingsPos, holdTarget)
  /\ UNCHANGED <<setupVars, objVars, smoothedWingsRot, smoothedLeftPos,
                 smoothedRightPos, smoothedLeftRot, smoothedRightRot, pending,
                 last, canvas, startVars, plyVars, loadVars, holdVars, helperVars>>

NextHold == HoldTick

SpecHold == InitHold /\ [][NextHold]_vars

\* ------------------------------------------------------------------ C22
\* |s - t| <= Number.EPSILON * |t|
WithinEpsilon(s, t) ==
  D64Le(D64Abs(D64Sub(s, t)), D64Mul(D64Epsilon, D64Abs(t)))
AllWithinEpsilon ==
  \A a \in Axes : WithinEpsilon(smoothedWingsPos[a], holdTarget[a])

\* C22 as stated: with factor 0.4 and a constant target, from any finite
\* start, every axis is within floating-point epsilon of the target once 20
\* placement ticks have run.
C22_WithinEpsilonBy20 == ticks >= 20 => AllWithinEpsilon

\* C22, amended: from the zero-initialised state, with factor 0.4 and a
\* constant finite target, every axis is within floating-point epsilon of the
\* target once 72 placement ticks have run.
C22_WithinEpsilonBy72 ==
  (holdStart = VZero64 /\ ticks >= 72) => AllWithinEpsilon

\* 72 ticks from zero toward a target with no zero component: every axis is
\* within epsilon, and not every axis has reached the target itself.
C22_Witness ==
  /\ holdStart = VZero64 /\ ticks = 72
  /\ \A a \in Axes : ~D64IsZero(holdTarget[a])
  /\ AllWithinEpsilon
  /\ smoothedWingsPos # holdTarget

\* ------------------------------------------------- the helper smoothValue
\* Program v before its setupThreeJS has built anything, and no file parsed.
NothingBuilt(v) ==
  /\ variant = v
  /\ splatLoaded = FALSE /\ splatBoundingBoxSize = NoSize
  /\ wingsMesh = NoObject /\ leftWing = NoObject /\ rightWing = NoObject
  /\ smoothedWingsPos = VZero /\ smoothedWingsRot = VZero
  /\ smoothedLeftPos = VZero /\ smoothedRightPos = VZero
  /\ smoothedLeftRot = VZero /\ smoothedRightRot = VZero
  /\ pending = {}
  /\ ticks = 0
  /\ last = [kind |-> "init", id |-> 0, outcome |-> NoOutcome, calls |-> <<>>,
             rendered |-> FALSE, held |-> [sd \in Slots |-> NoHeld]]
  /\ canvas = BlankCanvas
NothingParsed == plyFile = NoFile /\ buffer = NoBuffer /\ geometry = NoGeometry

\* script.js smoothValue(current, target, factor)
SmoothValue(current, target, factor) ==
  FAdd(current, FMul(FSub(target, factor), factor))

\* Values and factors given to smoothValue.
SmoothValues == {FZero, FI(1), Lit(-275, 100), Lit(3, 10), FI(100)}
SmoothFactors == {FZero, Lit(3, 10), Lit(4, 10), FI(1)}

InitSmooth ==
  /\ NothingBuilt("script") /\ NotStarted /\ NothingParsed
  /\ NothingLoading /\ NothingHeld
  /\ \E current \in SmoothValues, target \in SmoothValues, factor \in SmoothFactors :
       smoothArgs = <<current, target, factor>>
  /\ smoothResult = <<>>

\* One call of smoothValue with the arguments drawn.
CallSmoothValue ==
  /\ smoothResult = <<>>
  /\ smoothResult' = <<SmoothValue(smoothArgs[1], smoothArgs[2], smoothArgs[3])>>
  /\ UNCHANGED <<loopVars, startVars, plyVars, loadVars, holdVars, smoothArgs>>

NextSmooth == CallSmoothValue

SpecSmooth == InitSmooth /\ [][NextSmooth]_vars

\* ------------------------------------------------------ part_001 tryLoadPLY
PLY_PATHS ==
  <<"./assets/wings.ply", "assets/wings.ply", "/assets/wings.ply",
    "../assets/wings.ply">>

\* One iteration's promise, its 5 s timer, and the request loader.load started.
FreshAttempt == [promise |-> "pending", timer |-> "armed", request |-> "loading"]
\* clearTimeout(timeout)
ClearTimeout(t) == IF t = "armed" THEN "cleared" ELSE t
Returned(k) == [status |-> "returned", path |-> k]
AllFailed == [status |-> "threw", path |-> 0]

\* tryLoadPLY is called: the first iteration builds its promise, arms its
\* timer, calls loader.load and awaits.
TryLoadPLY ==
  /\ pathIndex = 0
  /\ pathIndex' = 1
  /\ attempts' = <<FreshAttempt>>
  /\ UNCHANGED <<loopVars, startVars, plyVars, holdVars, helperVars, loadResult>>

\* resolve or reject of attempt k is called, att being the attempts after the
\* callback's own effects.  On a settled promise it does nothing.  On the
\* pending one, tryLoadPLY resumes in the same turn: it returns the geometry,
\* or goes on to the next path, or throws after the last.
Settle(k, att, outcome) ==
  IF attempts[k].promise # "pending"
  THEN attempts' = att /\ UNCHANGED <<pathIndex, loadResult>>
  ELSE IF outcome = "resolved"
  THEN /\ attempts' = [att EXCEPT ![k].promise = "resolved"]
       /\ loadResult' = Returned(k)
       /\ UNCHANGED pathIndex
  ELSE IF pathIndex < Len(PLY_PATHS)
  THEN /\ attempts' = Append([att EXCEPT ![k].promise = "rejected"], FreshAttempt)
       /\ pathIndex' = pathIndex + 1
       /\ UNCHANGED loadResult
  ELSE /\ attempts' = [att EXCEPT ![k].promise = "rejected"]
       /\ loadResult' = AllFailed
       /\ UNCHANGED pathIndex

\* A late success callback that is taken for the result all the same.
OnLoadAnyTime(k) ==
  /\ k \in DOMAIN attempts
  /\ attempts[k].request = "loading"
  /\ attempts' = [attempts EXCEPT ![k].request = "loaded",
                                  ![k].timer = ClearTimeout(@),
                                  ![k].promise = "resolved"]
  /\ loadResult' = Returned(k)
  /\ UNCHANGED <<loopVars, startVars, plyVars, holdVars, helperVars, pathIndex>>
\* loader.load's success callback for path k: clearTimeout, resolve(geo)
OnLoad(k) ==
  /\ k \in DOMAIN attempts
  /\ attempts[k].request = "loading"
  /\ Settle(k, [attempts EXCEPT ![k].request = "loaded",
                                ![k].timer = ClearTimeout(@)],
            "resolved")
  /\ UNCHANGED <<loopVars, startVars, plyVars, holdVars, helperVars>>

\* loader.load's error callback for path k: clearTimeout, reject(err)
OnError(k) ==
  /\ k \in DOMAIN attempts
  /\ attempts[k].request = "loading"
  /\ Settle(k, [attempts EXCEPT ![k].request = "failed",
                                ![k].timer = ClearTimeout(@)],
            "rejected")
  /\ UNCHANGED <<loopVars, startVars, plyVars, holdVars, helperVars>>

\* The timer of attempt k fires after 5 s: reject(new Error('Timeout after 5s'))
Timeout(k) ==
  /\ k \in DOMAIN attempts
  /\ attempts[k].timer = "armed"
  /\ Settle(k, [attempts EXCEPT ![k].timer = "fired"], "rejected")
  /\ UNCHANGED <<loopVars, startVars, plyVars, holdVars, helperVars>>

InitLoad ==
  /\ NothingBuilt("part_001") /\ NotStarted /\ NothingParsed
  /\ NothingLoading /\ NothingHeld /\ NothingSmoothed

NextLoad ==
  \/ TryLoadPLY
  \/ \E k \in DOMAIN PLY_PATHS : OnLoad(k)
  \/ \E k \in DOMAIN PLY_PATHS : OnError(k)
  \/ \E k \in DOMAIN PLY_PATHS : Timeout(k)

SpecLoad == InitLoad /\ [][NextLoad]_vars

\* ------------------------------------------------------------- startAR
\* script.js and part_001: init() registers the click handler of the start
\* button, each click calls startAR.  A call of startAR is suspended at one
\* of its awaits ("camera", "metadata", "asset", "model"), or has finished
\* ("running", "failed"), or waits for an event whose handler another call
\* has replaced ("orphaned").  What a frame does is the subject of Spec; here
\* `ticks` counts the frames renderLoop has begun to process.
MaxClicks == 2
Starters == {"script", "part_001"}

InitStart ==
  /\ \E v \in Starters : NothingBuilt(v)
  /\ NotStarted /\ NothingParsed
  /\ NothingLoading /\ NothingHeld /\ NothingSmoothed

\* renderLoop from `if (!isRunning) return;` on: it asks for the next frame
\* and processes this one.
RenderLoopBegins(requests) ==
  IF isRunning'
  THEN frameRequests' = requests + 1 /\ ticks' = ticks + 1
  ELSE frameRequests' = requests /\ UNCHANGED ticks

\* A click on the start button: startAR runs up to getUserMedia, or throws
\* 'Camera not supported' into its own catch.
Click(supported) ==
  /\ Len(startCalls) < MaxClicks
  /\ startCalls' = Append(startCalls, IF supported THEN "camera" ELSE "failed")
  /\ UNCHANGED <<isRunning, frameRequests, created, ticks>>

\* getUserMedia resolves: video.srcObject = stream, video.onloadedmetadata is
\* set (replacing the handler of a call that still waits for the event).
CameraGranted(c) ==
  /\ startCalls[c] = "camera"
  /\ startCalls' =
       [k \in DOMAIN startCalls |->
          IF k = c THEN "metadata"
          ELSE IF startCalls[k] = "metadata" THEN "orphaned"
          ELSE startCalls[k]]
  /\ created' = [created EXCEPT !.stream = @ + 1]
  /\ UNCHANGED <<isRunning, frameRequests, ticks>>

\* getUserMedia rejects: 'Camera access denied', caught at the end of startAR.
CameraDenied(c) ==
  /\ startCalls[c] = "camera"
  /\ startCalls' = [startCalls EXCEPT ![c] = "failed"]
  /\ UNCHANGED <<isRunning, frameRequests, created, ticks>>

\* loadedmetadata: the canvas is sized and setupThreeJS runs up to the load
\* of the asset; it has made the renderer, the scene and the camera.
MetadataLoaded(c) ==
  /\ startCalls[c] = "metadata"
  /\ startCalls' = [startCalls EXCEPT ![c] = "asset"]
  /\ created' = [created EXCEPT !.renderer = @ + 1]
  /\ UNCHANGED <<isRunning, frameRequests, ticks>>

\* The load of the asset ends, with the point cloud or (in the catch of
\* setupThreeJS) with the boxes; startAR goes on to createDetector.
AssetReady(c) ==
  /\ startCalls[c] = "asset"
  /\ startCalls' = [startCalls EXCEPT ![c] = "model"]
  /\ created' = [created EXCEPT !.asset = @ + 1]
  /\ UNCHANGED <<isRunning, frameRequests, ticks>>

\* createDetector rejects and the loop is started all the same.
ModelFailedButRuns(c) ==
  /\ startCalls[c] = "model"
  /\ ticks < MaxTicks
  /\ startCalls' = [startCalls EXCEPT ![c] = "failed"]
  /\ isRunning' = TRUE
  /\ RenderLoopBegins(frameRequests)
  /\ UNCHANGED created
\* createDetector rejects: caught at the end of startAR.
ModelFailed(c) ==
  /\ startCalls[c] = "model"
  /\ startCalls' = [startCalls EXCEPT ![c] = "failed"]
  /\ UNCHANGED <<isRunning, frameRequests, created, ticks>>

\* createDetector resolves: poseModel is set, isRunning = true, renderLoop()
ModelLoaded(c) ==
  /\ startCalls[c] = "model"
  /\ ticks < MaxTicks
  /\ startCalls' = [startCalls EXCEPT ![c] = "running"]
  /\ created' = [created EXCEPT !.poseModel = @ + 1]
  /\ isRunning' = TRUE
  /\ RenderLoopBegins(frameRequests)

\* The display refreshes: one of the callbacks requestAnimationFrame holds runs.
RenderLoopCallback ==
  /\ frameRequests > 0
  /\ ticks < MaxTicks
  /\ UNCHANGED <<isRunning, startCalls, created>>
  /\ RenderLoopBegins(frameRequests - 1)

\* What startAR and the start of the loop leave alone.
StartLeaves ==
  UNCHANGED <<setupVars, objVars, smoothVars, pending, last, canvas,
              plyVars, loadVars, holdVars, helperVars>>

NextStart ==
  \/ \E supported \in BOOLEAN : Click(supported) /\ StartLeaves
  \/ \E c \in DOMAIN startCalls : CameraGranted(c) /\ StartLeaves
  \/ \E c \in DOMAIN startCalls : CameraDenied(c) /\ StartLeaves
  \/ \E c \in DOMAIN startCalls : MetadataLoaded(c) /\ StartLeaves
  \/ \E c \in DOMAIN startCalls : AssetReady(c) /\ StartLeaves
  \/ \E c \in DOMAIN startCalls : ModelFailed(c) /\ StartLeaves
  \/ \E c \in DOMAIN startCalls : ModelLoaded(c) /\ StartLeaves
  \/ RenderLoopCallback /\ StartLeaves

SpecStart == InitStart /\ [][NextStart]_vars

\* ------------------------------------------------------- C21, C25, C26
\* C21: the placement functions run at most once per rendered frame and in
\* that frame's own turn.  Every step that writes the smoothed state or the
\* transform of an overlay object is the turn of one tick, places that object
\* exactly once, and ends with the render of the scene: so no second update
\* of the object and no code of another tick comes between a placement and
\* its render, however many ticks are awaiting their pose.
C21_OncePerRenderedFrame ==
  [][\A sd \in Slots :
       (\/ SmoothedPosOf(sd)' # SmoothedPosOf(sd)
        \/ SmoothedRotOf(sd)' # SmoothedRotOf(sd)
        \/ ObjectOf(sd).position # ObjectOf(sd)'.position
        \/ ObjectOf(sd).rotation # ObjectOf(sd)'.rotation
        \/ ObjectOf(sd).scale # ObjectOf(sd)'.scale)
       => /\ last'.kind = "placed"
          /\ last'.id \in pending /\ last'.id \notin pending'
          /\ Cardinality({i \in DOMAIN last'.calls : last'.calls[i].side = sd}) = 1
          /\ last'.rendered]_vars

\* A smoothed overlay was placed and rendered in the turn of one tick while
\* another tick was still awaiting its pose.
C21_Witness ==
  /\ last.kind = "placed"
  /\ \E c \in SmoothedCalls : SmoothedPosOf(c.side) # c.oldPos
  /\ last.rendered
  /\ pending # {}

\* C25: a tick draws the video frame, infers the pose, places, renders and
\* composites, and its composite goes over the video frame that the same tick
\* drew: when a tick has composited, the canvas shows that tick's video frame
\* with that tick's render, and nothing else, over it.
C25_CompositeOverOwnFrame ==
  (/\ variant # "part_000"
   /\ last.kind \in ResumedKinds \cup {"nodata"}
   /\ last.rendered)
  => /\ canvas.video = last.id
     /\ canvas.over = <<last.id>>

\* C26: at most one pose inference is in flight, and the frames resume in the
\* order in which they were sampled.
C26_OneInferenceInFlight ==
  /\ Cardinality(pending) <= 1
  /\ last.kind \in ResumedKinds => \A id \in pending : last.id < id

\* ------------------------------------------------------------------ C23
\* The anchor of a pose in pixels: the midpoint of the shoulders, moved down
\* (toward larger y) by 0.15 times their distance d.
AnchorPixel(o) ==
  [x |-> FDiv(FAdd(o.ls.x, o.rs.x), FI(2)),
   y |-> FAdd(FDiv(FAdd(o.ls.y, o.rs.y), FI(2)),
              FMul(Lit(15, 100), Hypot(FSub(o.rs.x, o.ls.x), FSub(o.rs.y, o.ls.y))))]
\* (2x/W - 1, 1 - 2y/H), the horizontal component negated for the front camera.
AnchorNdc(p) ==
  [x |-> IF CAMERA_MODE = "user"
         THEN FNeg(FSub(FDiv(FMul(FI(2), p.x), FI(VideoWidth)), FI(1)))
         ELSE FSub(FDiv(FMul(FI(2), p.x), FI(VideoWidth)), FI(1)),
   y |-> FSub(FI(1), FDiv(FMul(FI(2), p.y), FI(VideoHeight)))]

\* C23: in every positionSplat call the point mapped to world space is the
\* shoulder midpoint shifted down by 0.15 * d, in normalized device
\* coordinates (2x/W - 1, 1 - 2y/H), mirrored exactly for the front camera;
\* it is computed from the pose of the tick alone, so the shift is applied
\* once per tick whatever the ticks before placed.
C23_AnchorBelowShoulders ==
  \A c \in CallsOfLast :
    c.fn = "positionSplat"
    => c.tPos = AlongRay(RayThrough(AnchorNdc(AnchorPixel(last.outcome))), c.depth)

\* positionSplat ran on two ticks in a row with the same pose, shoulders
\* apart (a shift that is not zero) and off the centre column of the image.
C23_Witness ==
  /\ last.kind = "placed"
  /\ \E c \in CallsOfLast : c.fn = "positionSplat" /\ FGt(c.dist, FI(1))
  /\ last.held["wings"].n >= 2
  /\ ~IsZero(AnchorNdc(AnchorPixel(last.outcome)).x)

\* ------------------------------------------------------------------ C24
\* The table parsePLY builds from the header in `buffer`.
ParsedProperties ==
  Properties(PropertyLines(HeaderText(buffer), HeaderEndIndex(HeaderText(buffer))))
\* Where field k of a record starts in the file: after the bytes of the
\* fields declared before it.
StoredOffset(props, k) == RecordSize(SubSeq(props, 1, k - 1))

\* C24: when parsePLY returns, every declared field is in the table
\* with the offset at which the file stores it (the sum of the sizes of the
\* fields declared before it), and the stride is the size of a stored record.
C24_OffsetsAddressFields ==
  geometry.status = "returned"
  => /\ \A k \in DOMAIN plyFile.props :
          OffsetOf(ParsedProperties, plyFile.props[k].name)
            = StoredOffset(plyFile.props, k)
     /\ VertexStride(ParsedProperties) = RecordSize(plyFile.props)

\* ------------------------------------------------------------------ C30
\* C30: smoothValue(current, target, factor) returns
\* current + (target - current) * factor, and so returns t when current and
\* target are both t.
C30_SmoothValueBlends ==
  smoothResult # <<>>
  => /\ smoothResult[1]
          = FAdd(smoothArgs[1],
                 FMul(FSub(smoothArgs[2], smoothArgs[1]), smoothArgs[3]))
     /\ smoothArgs[1] = smoothArgs[2] => smoothResult[1] = smoothArgs[1]

\* ------------------------------------------------------------------ C29
\* The attempts made so far are the first pathIndex paths in list order, and
\* every attempt before the latest has failed: only the latest can be open.
InListOrder ==
  /\ Len(attempts) = pathIndex
  /\ \A k \in 1..(pathIndex - 1) : attempts[k].promise = "rejected"
\* What tryLoadPLY gave: the first path that loaded in time, no path being
\* attempted after it; or an error, every path having failed.
FirstSuccess ==
  /\ loadResult.status = "returned"
     => /\ loadResult.path = pathIndex
        /\ attempts[pathIndex].promise = "resolved"
        /\ attempts[pathIndex].request = "loaded"
  /\ loadResult.status = "threw"
     => /\ pathIndex = Len(PLY_PATHS)
        /\ \A k \in DOMAIN PLY_PATHS : attempts[k].promise = "rejected"
  /\ loadResult.status = "none"
     => pathIndex = 0 \/ attempts[pathIndex].promise = "pending"
\* An attempt whose 5 s ran out has failed, whatever its request does later.
TimedOutFailed ==
  \A k \in DOMAIN attempts :
    attempts[k].timer = "fired" => attempts[k].promise = "rejected"
\* A settled attempt stays as it settled and a result stays as given.
OutcomesFinal ==
  /\ \A k \in DOMAIN attempts :
       attempts[k].promise # "pending"
       => attempts'[k].promise = attempts[k].promise
  /\ loadResult.status # "none" => loadResult' = loadResult /\ pathIndex' = pathIndex

\* C29: tryLoadPLY tries the paths in list order, one at a time, returns the
\* first that loads and tries none after it, counts an attempt that took more
\* than 5 s as failed whatever arrives later, and throws only when every path
\* has failed.
C29_FirstPathThatLoads ==
  /\ [](InListOrder /\ FirstSuccess /\ TimedOutFailed)
  /\ [][OutcomesFinal]_vars

\* tryLoadPLY returned a later path after the first had timed out, and the
\* first path's success callback arrived after that.
C29_Witness ==
  /\ loadResult.status = "returned" /\ loadResult.path >= 2
  /\ attempts[1].timer = "fired" /\ attempts[1].request = "loaded"

\* ------------------------------------------------------------- C27, C28
Succeeded == {c \in DOMAIN startCalls : startCalls[c] = "running"}

C28_OneLoopOneSetup ==
  /\ frameRequests <= 1
  /\ created.renderer <= 1 /\ created.asset <= 1 /\ created.poseModel <= 1

====
